---- MODULE Spec2Model ----
(***************************************************************************)
(* The LWT execution engine of the ANoT method: the dependency and layer   *)
(* builder (methods/anot/helpers.py) and the layered asynchronous          *)
(* execution of a script (methods/anot/core.py and methods/anot.py).       *)
(***************************************************************************)
EXTENDS Integers, Sequences, FiniteSets, TLC

\* ------------------------------------------------------------------------
\* Bounds and input domains
\* ------------------------------------------------------------------------

\* Longest step list handed to build_execution_layers.
MaxSteps == 3

\* Step IDs the scripts declare; "context" is also a reserved input name.
StepIds == {"a", "b", "c", "context"}

\* An instruction template is a sequence of tokens: literal text, or a
\* reference {(name)}.
Txt == [kind |-> "txt", name |-> "Check"]

Ref(n) == [kind |-> "ref", name |-> n]

\* The instruction templates of the inputs.
Instrs ==
  { <<Txt>>,
    <<Txt, Ref("a")>>,
    <<Ref("b")>>,
    <<Ref("c"), Txt>>,
    <<Txt, Ref("context")>>,
    <<Ref("a"), Txt, Ref("b"), Ref("a")>> }

\* A step is the pair (idx, instr) of the parsed script.
StepRecs == [idx : StepIds, instr : Instrs]

StepLists == UNION {[1..n -> StepRecs] : n \in 0..MaxSteps}

\* ------------------------------------------------------------------------
\* helpers.py: extract_dependencies, build_execution_layers
\* ------------------------------------------------------------------------

\* re.findall(r'\{\(([a-zA-Z0-9_.]+)\)\}', instruction) collected into a set.
extract_dependencies(instruction) ==
  {instruction[i].name : i \in {j \in DOMAIN instruction : instruction[j].kind = "ref"}}

\* Reserved input variables that are always available (not steps).
input_vars == {"query", "input", "items", "context"}

\* The IDs a step list declares.
DeclaredIds(ss) == {ss[i].idx : i \in DOMAIN ss}

\* Position of the last step declaring id: a later assignment to
\* step_deps[idx] replaces an earlier one.
LastPos(ss, id) ==
  CHOOSE i \in DOMAIN ss :
    /\ ss[i].idx = id
    /\ \A j \in DOMAIN ss : ss[j].idx = id => j <= i

\* The dict step_deps after the loop "for idx, instr in steps".
BuildStepDeps(ss) ==
  [id \in DeclaredIds(ss) |->
     extract_dependencies(ss[LastPos(ss, id)].instr) \ input_vars]

\* "if idx in assigned: continue".
AlreadyAssignedSkipNone(idx, asg) == FALSE

AlreadyAssigned(idx, asg) == idx \in asg

\* "if deps <= assigned".
DepsSatisfiedAny(deps, asg) == deps = {} \/ deps \cap asg # {}

DepsSatisfied(deps, asg) == deps \subseteq asg

\* The positions of a set in list order: the loops "for idx, instr in steps"
\* visit the steps in declaration order.
RECURSIVE SelectPos(_)
SelectPos(S) ==
  IF S = {} THEN <<>>
  ELSE LET first == CHOOSE x \in S : \A y \in S : x <= y
       IN <<first>> \o SelectPos(S \ {first})

\* One scan "for idx, instr in steps" building current_layer.  A layer holds
\* the positions of its (idx, instr) tuples in steps.
CurrentLayerFirstReady(ss, deps, asg) ==
  LET ready == {p \in DOMAIN ss : /\ ~AlreadyAssigned(ss[p].idx, asg)
                                  /\ DepsSatisfied(deps[ss[p].idx], asg)}
  IN IF ready = {} THEN <<>> ELSE <<CHOOSE p \in ready : \A q \in ready : p <= q>>

CurrentLayer(ss, deps, asg) ==
  SelectPos({p \in DOMAIN ss : /\ ~AlreadyAssigned(ss[p].idx, asg)
                               /\ DepsSatisfied(deps[ss[p].idx], asg)})

\* remaining = [(idx, instr) for idx, instr in steps if idx not in assigned]
Remaining(ss, asg) == SelectPos({p \in DOMAIN ss : ss[p].idx \notin asg})

\* The IDs of the steps at the positions of a layer.
LayerIdsForgotten(ss, layer) == {}

LayerIds(ss, layer) == {ss[layer[k]].idx : k \in DOMAIN layer}

\* The while loop of build_execution_layers from a loop state on.
RECURSIVE LayerLoop(_, _, _, _)
LayerLoop(ss, deps, ls, asg) ==
  IF ~(Cardinality(asg) < Len(ss))
  THEN [raised |-> FALSE, layers |-> ls, unresolved |-> <<>>]
  ELSE LET cl == CurrentLayer(ss, deps, asg)
           rem == Remaining(ss, asg)
       IN IF cl = <<>>
          THEN IF rem # <<>>
               THEN [raised |-> TRUE, layers |-> <<>>,
                     unresolved |-> [k \in DOMAIN rem |-> ss[rem[k]].idx]]
               ELSE [raised |-> FALSE, layers |-> ls, unresolved |-> <<>>]
          ELSE LayerLoop(ss, deps, Append(ls, cl), asg \cup LayerIds(ss, cl))

\* build_execution_layers(steps): the layers, or the ValueError with its
\* list of unresolved step IDs.
build_execution_layers_lenient(ss) ==
  LET r == LayerLoop(ss, BuildStepDeps(ss), <<>>, {})
  IN IF ss = <<>>
     THEN [raised |-> FALSE, layers |-> <<>>, unresolved |-> <<>>]
     ELSE IF r.raised
     THEN [raised |-> FALSE, layers |-> <<SelectPos(DOMAIN ss)>>, unresolved |-> <<>>]
     ELSE r

build_execution_layers(ss) ==
  IF ss = <<>>
  THEN [raised |-> FALSE, layers |-> <<>>, unresolved |-> <<>>]
  ELSE LayerLoop(ss, BuildStepDeps(ss), <<>>, {})

\* ------------------------------------------------------------------------
\* Scripts, parse_script, substitute_variables
\* ------------------------------------------------------------------------

\* A script line: a step declaration (idx)=LLM("instr"), or any other text.
StepLine(id, ins) == [kind |-> "step", idx |-> id, instr |-> ins]

ProseLine == [kind |-> "prose", idx |-> "", instr |-> <<>>]

\* The scripts handed to phase3_execute.
NoStepScript == <<ProseLine>>

FanInScript ==
  << StepLine("a", <<Txt>>),
     ProseLine,
     StepLine("b", <<Txt, Ref("context")>>),
     StepLine("c", <<Ref("a"), Txt, Ref("b"), Ref("a")>>) >>

ChainScript == << StepLine("b", <<Txt, Ref("a")>>), StepLine("a", <<Txt>>) >>

DuplicateIdScript == << StepLine("a", <<Txt, Ref("a")>>), StepLine("a", <<Txt>>) >>

CycleScript == << StepLine("a", <<Ref("b")>>), StepLine("b", <<Txt, Ref("a")>>) >>

FanOutScript ==
  << StepLine("a", <<Txt>>),
     StepLine("b", <<Txt, Ref("a")>>),
     StepLine("c", <<Ref("a"), Txt>>) >>

ExecScripts ==
  {NoStepScript, FanInScript, ChainScript, DuplicateIdScript, CycleScript, FanOutScript}

\* parse_script: the (idx, instr) pairs of the step lines, in line order.
RECURSIVE parse_script(_)
parse_script(lines) ==
  IF lines = <<>> THEN <<>>
  ELSE (IF Head(lines).kind = "step"
        THEN <<[idx |-> Head(lines).idx, instr |-> Head(lines).instr]>>
        ELSE <<>>) \o parse_script(Tail(lines))

\* The threads that call phase3_execute on the one instance.
Threads == {"t1", "t2"}

\* A piece of text together with the execution whose step output it is
\* ("none" for template text, fixed inputs and the empty string).
Piece(s, who) == [text |-> s, by |-> who]

\* The names substitute_variables resolves to fixed inputs.
FixedInputNames == {"input", "context"}

\* substitute_variables without accessors: every reference is replaced by the
\* fixed input, or by cache.get(var, '').
substitute_variables_first_occurrence(instruction, c) ==
  [i \in DOMAIN instruction |->
     LET tok == instruction[i]
     IN IF tok.kind = "txt" THEN Piece(tok.name, "none")
        ELSE IF tok.name \in FixedInputNames THEN Piece("FIXED", "none")
        ELSE IF tok.name \in DOMAIN c /\ \A j \in 1..(i - 1) : instruction[j] # tok
        THEN c[tok.name]
        ELSE Piece("", "none")]

substitute_variables(instruction, c) ==
  [i \in DOMAIN instruction |->
     LET tok == instruction[i]
     IN IF tok.kind = "txt" THEN Piece(tok.name, "none")
        ELSE IF tok.name \in FixedInputNames THEN Piece("FIXED", "none")
        ELSE IF tok.name \in DOMAIN c THEN c[tok.name]
        ELSE Piece("", "none")]

\* What the collaborator call of a step does: it returns a text or raises.
Replies == {"yes"}

Raises == "EXC"

\* The two copies of the engine: methods/anot/core.py and methods/anot.py.
Variants == {"core", "anot"}

\* The fallback output of a step whose collaborator call raised.
SentinelSwapped(v) == IF v = "core" THEN "0" ELSE "NO"

Sentinel(v) == IF v = "core" THEN "NO" ELSE "0"

\* The text returned when the script has no valid step.
NoStepsReturnSwapped(v) == IF v = "core" THEN "0" ELSE ""

NoStepsReturn(v) == IF v = "core" THEN "" ELSE "0"

\* try: output = await call_llm_async(...)  except Exception: output = sentinel
StepOutputNoFallback(v, r) == r

StepOutput(v, r) == IF r = Raises THEN Sentinel(v) ELSE r

\* The storage an attribute of self._thread_local resolves to for thread t.
thread_local_shared(t) == CHOOSE u \in Threads : TRUE

thread_local(t) == t

\* ------------------------------------------------------------------------
\* State
\* ------------------------------------------------------------------------

VARIABLES
  steps,       \* the argument of build_execution_layers
  step_deps,   \* its dict step_deps
  layers,      \* its list layers
  assigned,    \* its set assigned
  unresolved,  \* the unresolved IDs of the ValueError
  pcL,         \* its position: "start", "loop", "returned", "raised"
  variant,     \* the copy of the engine that runs
  script,      \* per thread: the script text lwt
  mode,        \* per thread: "none", "async" (_execute_parallel), "seq" (fallback)
  pc,          \* per thread: "idle", "gather", "write", "fill", "call", "done", "raised"
  cache,       \* per thread-local storage: the dict cache (ID -> output)
  esteps,      \* per thread: steps = parse_script(lwt)
  elayers,     \* per thread: layers = build_execution_layers(steps)
  cur,         \* per thread: index of the layer (async) or step (seq) in progress
  status,      \* per thread, per step position: "new", "awaiting", "returned", "cached"
  filled,      \* per thread, per step position: the substituted prompt
  output,      \* per thread, per step position: the output of the step
  failed,      \* per thread: the positions whose collaborator call raised
  widx,        \* per thread: position in results of the write loop
  final,       \* per thread: the local final
  ret,         \* per thread: the value phase3_execute returned
  wlog,        \* per thread: the _cache_set calls made, in order
  rlog         \* per thread: the step positions in the order their calls ended

varsL == <<steps, step_deps, layers, assigned, unresolved, pcL>>

varsE == <<variant, script, mode, pc, cache, esteps, elayers, cur, status,
           filled, output, failed, widx, final, ret, wlog, rlog>>

\* The rate limiter of utils/llm.py and the calls of call_llm_async.
VARIABLES
  max_concurrent,   \* the global _max_concurrent
  async_semaphore,  \* the global _async_semaphore: 0 for None, or a semaphore
  sems,             \* the asyncio.Semaphore objects created, in creation order
  inits,            \* the init_rate_limiter calls made since the start
  cloop,            \* per caller: the event loop (thread) its coroutine runs on
  cpc,              \* per caller: its position in call_llm_async
  csem,             \* per caller: its local sem (0 before it is bound)
  running           \* per event loop: the coroutine running on it, or "none"

varsG == <<max_concurrent, async_semaphore, sems, inits, cloop, cpc, csem, running>>

\* The final parse of evaluate_ranking.
VARIABLES
  r_output,    \* the text output returned by phase3_execute
  r_n_items,   \* n_items
  r_k,         \* k
  r_matches,   \* the matches of re.finditer not yet visited
  r_indices,   \* the list indices
  r_top_k,     \* the list top_k, as integers
  r_pc         \* "off", "scan", "done"

varsR == <<r_output, r_n_items, r_k, r_matches, r_indices, r_top_k, r_pc>>

\* parse_final_answer.
VARIABLES
  fa_output,   \* the argument output
  fa_result,   \* the value returned
  fa_pc        \* "off", "start", "done"

varsF == <<fa_output, fa_result, fa_pc>>

\* substitute_variables of knot.py on one reference {(var)}[acc]...
VARIABLES
  s_var,        \* the name between "{(" and ")}"
  s_chain,      \* the accessors that follow the reference
  s_context,    \* the argument context
  s_accs,       \* the accessors not yet applied
  s_val,        \* the local val of _sub
  s_missed,     \* an accessor found its map key missing or its index out of range
  s_out,        \* what stands in the result in place of the reference
  s_pc          \* "off", "start", "access", "done"

varsS == <<s_var, s_chain, s_context, s_accs, s_val, s_missed, s_out, s_pc>>

\* parse_script of knot.py on the lines of one script.
VARIABLES
  p_line,      \* the line of the current pass of "for line in script.split('\n')"
  p_steps,     \* the list steps
  p_n,         \* the lines read so far
  p_pc         \* "off", "loop", "done"

varsP == <<p_line, p_steps, p_n, p_pc>>

\* The module-level method functions of knot.py and rnot.py and their
\* executor singleton.
VARIABLES
  m_executor,   \* the global _executor: 0 for None, or an instance
  m_instances,  \* the executor instances created so far
  m_cache,      \* per instance: the dict self.cache
  m_self,       \* per request: the instance its call of solve runs on, 0 before
  m_cur,        \* per request: the position in steps of the loop
  m_filled,     \* per request: the prompt of the step in progress
  m_wlog,       \* per request: its writes self.cache[idx] = ... since its reset
  m_pc          \* per request: "idle", "check", "create", "call", "reset", "fill", "llm", "done"

varsM ==
  <<m_executor,
    m_instances,
    m_cache,
    m_self,
    m_cur,
    m_filled,
    m_wlog,
    m_pc>>

\* evaluate_ranking of run.py on one batch of requests.
VARIABLES
  b_parallel,     \* the argument parallel
  b_max_workers,  \* the argument max_workers
  b_requests,     \* the argument requests: per position, has ground truth or not
  b_outcome,      \* per request: what method.evaluate_ranking and parse_indices do
  b_state,        \* per request: "new", "queued", "running", "finished", "collected"
  b_result,       \* per request: the value evaluate_ranking_single returned
  b_results,      \* the list results
  b_pc            \* "off", "start", "collect", "loop", "done"

varsB ==
  <<b_parallel,
    b_max_workers,
    b_requests,
    b_outcome,
    b_state,
    b_result,
    b_results,
    b_pc>>

\* re.sub of substitute_variables over a template with several references.
VARIABLES
  t_template,   \* the argument instruction, as pieces of text and references
  t_pos,        \* the position re.sub has reached in the template
  t_out,        \* the result built so far
  t_lookups,    \* the calls of _sub made so far
  t_pc          \* "off", "scan", "done"

varsT == <<t_template, t_pos, t_out, t_lookups, t_pc>>

\* One call of _call_openai_sync or _call_openai_async.
VARIABLES
  a_async,        \* TRUE for _call_openai_async
  a_max_retries,  \* _config["max_retries"]
  a_attempt,      \* the loop variable attempt
  a_log,          \* the outcomes of the attempts made, in order
  a_pc            \* "off", "try", "returned", "raised"

varsA == <<a_async, a_max_retries, a_attempt, a_log, a_pc>>

\* The client singleton of _get_openai_client or _get_async_openai_client and
\* the threads calling it.
VARIABLES
  c_async,    \* TRUE for _get_async_openai_client
  c_client,   \* the global _openai_client (_async_openai_client)
  c_lock,     \* the holder of _openai_client_lock (_async_openai_lock), 0 when free
  c_built,    \* how many client objects have been constructed
  c_pc,       \* each thread's position in the function
  c_calls,    \* how many calls each thread has begun
  c_got       \* the objects each thread's calls have returned

varsC == <<c_async, c_client, c_lock, c_built, c_pc, c_calls, c_got>>

\* One run of run_hierarchical_phase2: the agent tasks on the event loop, the
\* main agent's hard_results, the shared step list and what the run returned.
VARIABLES
  h_pass,      \* for each item, whether it meets every hard condition
  h_tasks,     \* the tasks running ReActAgent.run, in order of creation (1 is the main agent)
  h_hard,      \* the main agent's hard_results
  h_steps,     \* SharedState.steps
  h_returned,  \* TRUE once run_hierarchical_phase2 has returned
  h_result     \* the step list it returned

varsH == <<h_pass, h_tasks, h_hard, h_steps, h_returned, h_result>>

\* A step list edited by tool_add_step and tool_insert_step.
VARIABLES
  k_steps,   \* lwt_steps, each line a sequence of tokens
  k_msg,     \* what the last call returned: "", "added", "exists"
  k_calls    \* how many calls have been made

varsK == <<k_steps, k_msg, k_calls>>

\* One call of evaluate_ranking of methods/anot.py, from phase 3 on.
VARIABLES
  q_n,       \* len(items)
  q_k,       \* the parameter k
  q_cache,   \* the thread-local cache: item index -> output text
  q_run,     \* the indices whose scoring step has been executed
  q_top,     \* top_k, the 1-based indices returned
  q_pc       \* "off", "phase3", "returned", "raised"

varsQ == <<q_n, q_k, q_cache, q_run, q_top, q_pc>>

\* The permits of the rate limiter: the semaphores of call_llm (threads) and
\* of call_llm_async (coroutines of one event loop), and how each call ended.
VARIABLES
  u_max,       \* the global _max_concurrent
  u_api,       \* the global _api_semaphore: 0 for None, or a semaphore
  u_async,     \* the global _async_semaphore: 0 for None, or a semaphore
  u_sems,      \* the semaphore objects created, in creation order
  u_inits,     \* the init_rate_limiter calls made by the main program
  u_pc,        \* per caller: its position in call_llm or call_llm_async
  u_sem,       \* per caller: its local sem (0 before it is bound)
  u_exit,      \* per caller: how its call ended, "none" while it has not
  u_running    \* the coroutine running on the event loop, or "none"

varsU ==
  <<u_max,
    u_api,
    u_async,
    u_sems,
    u_inits,
    u_pc,
    u_sem,
    u_exit,
    u_running>>

\* The plan cache of one AdaptiveNetworkOfThought instance (anot.py) and the
\* threads that call its evaluate_ranking.
VARIABLES
  v_cache,     \* self.lwt_cache: per context the plan stored, or Absent
  v_pc,        \* per thread: its position in evaluate_ranking
  v_ctx,       \* per thread: the context argument of its call
  v_plan,      \* per thread: its local plan
  v_calls,     \* per thread: the calls it has begun
  v_explored   \* per context: how many times phase1_explore has been called

varsV == <<v_cache, v_pc, v_ctx, v_plan, v_calls, v_explored>>

vars == <<varsL, varsE, varsG, varsR, varsF, varsS, varsP, varsM, varsB, varsT, varsA, varsC, varsH, varsK, varsQ, varsU, varsV>>

\* The variables outside build_execution_layers, outside phase3_execute,
\* outside the rate limiter, outside the final parse of evaluate_ranking,
\* outside parse_final_answer and outside substitute_variables.
othersL == <<varsE, varsG, varsR, varsF, varsS, varsP, varsM, varsB, varsT, varsA, varsC, varsH, varsK, varsQ, varsU, varsV>>

othersE == <<varsL, varsG, varsR, varsF, varsS, varsP, varsM, varsB, varsT, varsA, varsC, varsH, varsK, varsQ, varsU, varsV>>

othersG == <<varsL, varsE, varsR, varsF, varsS, varsP, varsM, varsB, varsT, varsA, varsC, varsH, varsK, varsQ, varsU, varsV>>

othersR == <<varsL, varsE, varsG, varsF, varsS, varsP, varsM, varsB, varsT, varsA, varsC, varsH, varsK, varsQ, varsU, varsV>>

othersF == <<varsL, varsE, varsG, varsR, varsS, varsP, varsM, varsB, varsT, varsA, varsC, varsH, varsK, varsQ, varsU, varsV>>

othersS == <<varsL, varsE, varsG, varsR, varsF, varsP, varsM, varsB, varsT, varsA, varsC, varsH, varsK, varsQ, varsU, varsV>>

othersP == <<varsL, varsE, varsG, varsR, varsF, varsS, varsM, varsB, varsT, varsA, varsC, varsH, varsK, varsQ, varsU, varsV>>

othersM == <<varsL, varsE, varsG, varsR, varsF, varsS, varsP, varsB, varsT, varsA, varsC, varsH, varsK, varsQ, varsU, varsV>>

othersB == <<varsL, varsE, varsG, varsR, varsF, varsS, varsP, varsM, varsT, varsA, varsC, varsH, varsK, varsQ, varsU, varsV>>

othersT == <<varsL, varsE, varsG, varsR, varsF, varsS, varsP, varsM, varsB, varsA, varsC, varsH, varsK, varsQ, varsU, varsV>>

othersA == <<varsL, varsE, varsG, varsR, varsF, varsS, varsP, varsM, varsB, varsT, varsC, varsH, varsK, varsQ, varsU, varsV>>

othersC == <<varsL, varsE, varsG, varsR, varsF, varsS, varsP, varsM, varsB, varsT, varsA, varsH, varsK, varsQ, varsU, varsV>>

othersH == <<varsL, varsE, varsG, varsR, varsF, varsS, varsP, varsM, varsB, varsT, varsA, varsC, varsK, varsQ, varsU, varsV>>

othersK == <<varsL, varsE, varsG, varsR, varsF, varsS, varsP, varsM, varsB, varsT, varsA, varsC, varsH, varsQ, varsU, varsV>>

othersQ == <<varsL, varsE, varsG, varsR, varsF, varsS, varsP, varsM, varsB, varsT, varsA, varsC, varsH, varsK, varsU, varsV>>

othersU == <<varsL, varsE, varsG, varsR, varsF, varsS, varsP, varsM, varsB, varsT, varsA, varsC, varsH, varsK, varsQ, varsV>>

othersV == <<varsL, varsE, varsG, varsR, varsF, varsS, varsP, varsM, varsB, varsT, varsA, varsC, varsH, varsK, varsQ, varsU>>

\* The execution engine at rest, with nothing chosen.
ExecIdle ==
  /\ mode = [t \in Threads |-> "none"]
  /\ pc = [t \in Threads |-> "idle"]
  /\ cache = [t \in Threads |-> <<>>]
  /\ esteps = [t \in Threads |-> <<>>]
  /\ elayers = [t \in Threads |-> <<>>]
  /\ cur = [t \in Threads |-> 0]
  /\ status = [t \in Threads |-> <<>>]
  /\ filled = [t \in Threads |-> <<>>]
  /\ output = [t \in Threads |-> <<>>]
  /\ failed = [t \in Threads |-> {}]
  /\ widx = [t \in Threads |-> 0]
  /\ final = [t \in Threads |-> ""]
  /\ ret = [t \in Threads |-> "unset"]
  /\ wlog = [t \in Threads |-> <<>>]
  /\ rlog = [t \in Threads |-> <<>>]

\* build_execution_layers not under study.
LayersIdle ==
  /\ steps = <<>>
  /\ step_deps = <<>>
  /\ layers = <<>>
  /\ assigned = {}
  /\ unresolved = <<>>
  /\ pcL = "off"

\* The rate limiter not under study: nothing configured, no caller.
GateIdle ==
  /\ max_concurrent = 0
  /\ async_semaphore = 0
  /\ sems = <<>>
  /\ inits = 0
  /\ cloop = <<>>
  /\ cpc = <<>>
  /\ csem = <<>>
  /\ running = <<>>

\* evaluate_ranking not under study.
RankIdle ==
  /\ r_output = <<>>
  /\ r_n_items = 0
  /\ r_k = 0
  /\ r_matches = <<>>
  /\ r_indices = <<>>
  /\ r_top_k = <<>>
  /\ r_pc = "off"

\* parse_final_answer not under study.
FinalIdle ==
  /\ fa_output = <<>>
  /\ fa_result = 0
  /\ fa_pc = "off"

\* substitute_variables with accessors not under study.
SubstIdle ==
  /\ s_var = ""
  /\ s_chain = <<>>
  /\ s_context = <<>>
  /\ s_accs = <<>>
  /\ s_val = <<>>
  /\ s_missed = FALSE
  /\ s_out = ""
  /\ s_pc = "off"

\* parse_script of knot.py not under study.
ParseIdle ==
  /\ p_line = <<>>
  /\ p_steps = <<>>
  /\ p_n = 0
  /\ p_pc = "off"

\* The method functions of knot.py and rnot.py not under study.
MethodIdle ==
  /\ m_executor = 0
  /\ m_instances = 0
  /\ m_cache = <<>>
  /\ m_self = <<>>
  /\ m_cur = <<>>
  /\ m_filled = <<>>
  /\ m_wlog = <<>>
  /\ m_pc = <<>>

\* evaluate_ranking of run.py not under study.
BatchIdle ==
  /\ b_parallel = FALSE
  /\ b_max_workers = 0
  /\ b_requests = <<>>
  /\ b_outcome = <<>>
  /\ b_state = <<>>
  /\ b_result = <<>>
  /\ b_results = <<>>
  /\ b_pc = "off"

\* re.sub of substitute_variables not under study.
ScanIdle ==
  /\ t_template = <<>>
  /\ t_pos = 0
  /\ t_out = <<>>
  /\ t_lookups = 0
  /\ t_pc = "off"

\* The retry loop not under study.
RetryIdle ==
  /\ a_async = FALSE
  /\ a_max_retries = 0
  /\ a_attempt = 0
  /\ a_log = <<>>
  /\ a_pc = "off"

\* The client singleton not under study.
ClientIdle ==
  /\ c_async = FALSE
  /\ c_client = <<>>
  /\ c_lock = 0
  /\ c_built = 0
  /\ c_pc = <<>>
  /\ c_calls = <<>>
  /\ c_got = <<>>

\* The agent hierarchy not under study.
HierIdle ==
  /\ h_pass = <<>>
  /\ h_tasks = <<>>
  /\ h_hard = <<>>
  /\ h_steps = <<>>
  /\ h_returned = FALSE
  /\ h_result = <<>>

\* The step list tools not under study.
ToolsIdle ==
  /\ k_steps = <<>>
  /\ k_msg = "off"
  /\ k_calls = 0

\* The ranking of methods/anot.py not under study.
ScoreIdle ==
  /\ q_n = 0
  /\ q_k = 0
  /\ q_cache = <<>>
  /\ q_run = {}
  /\ q_top = <<>>
  /\ q_pc = "off"

\* The permits not under study.
PermitIdle ==
  /\ u_max = 0
  /\ u_api = 0
  /\ u_async = 0
  /\ u_sems = <<>>
  /\ u_inits = 0
  /\ u_pc = <<>>
  /\ u_sem = <<>>
  /\ u_exit = <<>>
  /\ u_running = "none"

\* The plan cache not under study.
PlanIdle ==
  /\ v_cache = <<>>
  /\ v_pc = <<>>
  /\ v_ctx = <<>>
  /\ v_plan = <<>>
  /\ v_calls = <<>>
  /\ v_explored = <<>>

\* ------------------------------------------------------------------------
\* Specification of build_execution_layers, one action per loop pass
\* ------------------------------------------------------------------------

InitLayers ==
  /\ steps \in StepLists
  /\ step_deps = <<>>
  /\ layers = <<>>
  /\ assigned = {}
  /\ unresolved = <<>>
  /\ pcL = "start"
  /\ variant = "core"
  /\ script = [t \in Threads |-> <<>>]
  /\ ExecIdle
  /\ GateIdle
  /\ RankIdle
  /\ FinalIdle
  /\ SubstIdle
  /\ ParseIdle
  /\ MethodIdle
  /\ BatchIdle
  /\ ScanIdle
  /\ RetryIdle
  /\ ClientIdle
  /\ HierIdle
  /\ ToolsIdle
  /\ ScoreIdle
  /\ PermitIdle
  /\ PlanIdle

\* "if not steps: return []".
ReturnEmpty ==
  /\ pcL = "start"
  /\ steps = <<>>
  /\ pcL' = "returned"
  /\ UNCHANGED <<steps, step_deps, layers, assigned, unresolved, othersL>>

\* Build the dependency graph and enter the while loop.
BuildGraph ==
  /\ pcL = "start"
  /\ steps # <<>>
  /\ step_deps' = BuildStepDeps(steps)
  /\ pcL' = "loop"
  /\ UNCHANGED <<steps, layers, assigned, unresolved, othersL>>

\* A pass that finds a non-empty current_layer and commits it.
LayerPass ==
  /\ pcL = "loop"
  /\ Cardinality(assigned) < Len(steps)
  /\ LET cl == CurrentLayer(steps, step_deps, assigned)
     IN /\ cl # <<>>
        /\ layers' = Append(layers, cl)
        /\ assigned' = assigned \cup LayerIds(steps, cl)
  /\ UNCHANGED <<steps, step_deps, unresolved, pcL, othersL>>

\* A pass with an empty current_layer while steps remain: the ValueError.
RaiseCycle ==
  /\ pcL = "loop"
  /\ Cardinality(assigned) < Len(steps)
  /\ CurrentLayer(steps, step_deps, assigned) = <<>>
  /\ LET rem == Remaining(steps, assigned)
     IN /\ rem # <<>>
        /\ unresolved' = [k \in DOMAIN rem |-> steps[rem[k]].idx]
  /\ pcL' = "raised"
  /\ UNCHANGED <<steps, step_deps, layers, assigned, othersL>>

\* A pass with an empty current_layer and nothing remaining: "break".
BreakLoop ==
  /\ pcL = "loop"
  /\ Cardinality(assigned) < Len(steps)
  /\ CurrentLayer(steps, step_deps, assigned) = <<>>
  /\ Remaining(steps, assigned) = <<>>
  /\ pcL' = "returned"
  /\ UNCHANGED <<steps, step_deps, layers, assigned, unresolved, othersL>>

\* The loop condition fails: "return layers".
ReturnLayers ==
  /\ pcL = "loop"
  /\ ~(Cardinality(assigned) < Len(steps))
  /\ pcL' = "returned"
  /\ UNCHANGED <<steps, step_deps, layers, assigned, unresolved, othersL>>

NextLayers ==
  \/ ReturnEmpty
  \/ BuildGraph
  \/ LayerPass
  \/ RaiseCycle
  \/ BreakLoop
  \/ ReturnLayers

SpecLayers == InitLayers /\ [][NextLayers]_vars

\* build_execution_layers is sequential code that keeps running until it
\* returns or raises: a pass that can be taken is taken.
SpecLayersFair == SpecLayers /\ WF_vars(NextLayers)

\* ------------------------------------------------------------------------
\* Specification of phase3_execute, run by two threads on one instance
\* ------------------------------------------------------------------------

\* The dict d after d[k] = v.
Put(d, k, v) == [x \in DOMAIN d \cup {k} |-> IF x = k THEN v ELSE d[x]]

Range(f) == {f[x] : x \in DOMAIN f}

\* _get_cache: the dict of the calling thread.
GetCache(t) == cache[thread_local(t)]

\* tasks = [self._execute_step_async(idx, instr, ...) for idx, instr in layer]
DispatchedAllLayers(t, p) == p \in DOMAIN esteps[t]

Dispatched(t, p) == p \in Range(elayers[t][cur[t]])

\* The positions of rlog that belong to the layer in progress, in the order
\* their calls ended.
RECURSIVE CompletionOrder(_, _)
CompletionOrder(log, S) ==
  IF log = <<>> THEN <<>>
  ELSE (IF Head(log) \in S THEN <<Head(log)>> ELSE <<>>) \o CompletionOrder(Tail(log), S)

\* results = await asyncio.gather(*tasks): the results come in the order of
\* the tasks, whatever order they ended in.
GatherResultsAsCompleted(t) == CompletionOrder(rlog[t], Range(elayers[t][cur[t]]))

GatherResults(t) == elayers[t][cur[t]]

\* await asyncio.gather(*tasks) resumes once every task of the layer is over.
LayerComplete(t) == \A p \in Range(elayers[t][cur[t]]) : status[t][p] = "returned"

InitExec ==
  /\ variant \in Variants
  /\ script \in [Threads -> ExecScripts]
  /\ ExecIdle
  /\ LayersIdle
  /\ GateIdle
  /\ RankIdle
  /\ FinalIdle
  /\ SubstIdle
  /\ ParseIdle
  /\ MethodIdle
  /\ BatchIdle
  /\ ScanIdle
  /\ RetryIdle
  /\ ClientIdle
  /\ HierIdle
  /\ ToolsIdle
  /\ ScoreIdle
  /\ PermitIdle
  /\ PlanIdle

\* phase3_execute -> asyncio.run(_execute_parallel(...)) up to the first
\* gather: reset the cache, parse, return early, build the layers.
ExecStart(t) ==
  /\ pc[t] = "idle"
  /\ mode' = [mode EXCEPT ![t] = "async"]
  /\ cache' = [cache EXCEPT ![thread_local(t)] = <<>>]
  /\ LET ss == parse_script(script[t])
         r == build_execution_layers(ss)
     IN /\ esteps' = [esteps EXCEPT ![t] = ss]
        /\ status' = [status EXCEPT ![t] = [p \in DOMAIN ss |-> "new"]]
        /\ filled' = [filled EXCEPT ![t] = [p \in DOMAIN ss |-> <<>>]]
        /\ output' = [output EXCEPT ![t] = [p \in DOMAIN ss |-> Piece("", "none")]]
        /\ IF ss = <<>>
           THEN /\ pc' = [pc EXCEPT ![t] = "done"]
                /\ ret' = [ret EXCEPT ![t] = NoStepsReturn(variant)]
                /\ UNCHANGED <<elayers, cur>>
           ELSE IF r.raised
           THEN /\ pc' = [pc EXCEPT ![t] = "raised"]
                /\ UNCHANGED <<elayers, cur, ret>>
           ELSE /\ pc' = [pc EXCEPT ![t] = "gather"]
                /\ elayers' = [elayers EXCEPT ![t] = r.layers]
                /\ cur' = [cur EXCEPT ![t] = 1]
                /\ UNCHANGED ret
  /\ final' = [final EXCEPT ![t] = ""]
  /\ UNCHANGED <<othersE, variant, script, failed, widx, wlog, rlog>>

\* _execute_step_async up to its await: the template is substituted from the
\* cache and the collaborator call starts.
StepStart(t, p) ==
  /\ pc[t] = "gather"
  /\ Dispatched(t, p)
  /\ status[t][p] = "new"
  /\ filled' = [filled EXCEPT ![t][p] = substitute_variables(esteps[t][p].instr, GetCache(t))]
  /\ status' = [status EXCEPT ![t][p] = "awaiting"]
  /\ UNCHANGED <<othersE, variant, script, mode, pc, cache, esteps, elayers, cur,
                 output, failed, widx, final, ret, wlog, rlog>>

\* The collaborator call of a step returns r or raises; the task ends with
\* (idx, output).
StepReturn(t, p, r) ==
  /\ pc[t] = "gather"
  /\ status[t][p] = "awaiting"
  /\ output' = [output EXCEPT ![t][p] = Piece(StepOutput(variant, r), t)]
  /\ failed' = [failed EXCEPT ![t] = IF r = Raises THEN @ \cup {p} ELSE @]
  /\ status' = [status EXCEPT ![t][p] = "returned"]
  /\ rlog' = [rlog EXCEPT ![t] = Append(@, p)]
  /\ UNCHANGED <<othersE, variant, script, mode, pc, cache, esteps, elayers, cur,
                 filled, widx, final, ret, wlog>>

\* gather returns the results of the layer, in task order.
GatherDone(t) ==
  /\ pc[t] = "gather"
  /\ LayerComplete(t)
  /\ pc' = [pc EXCEPT ![t] = "write"]
  /\ widx' = [widx EXCEPT ![t] = 1]
  /\ UNCHANGED <<othersE, variant, script, mode, cache, esteps, elayers, cur,
                 status, filled, output, failed, final, ret, wlog, rlog>>

\* One pass of "for idx, output in results": _cache_set(idx, output) and
\* final = output; after the last result the next layer is dispatched, or
\* final is returned.
CacheWrite(t) ==
  /\ pc[t] = "write"
  /\ LET layer == elayers[t][cur[t]]
         p == GatherResults(t)[widx[t]]
         key == esteps[t][p].idx
     IN /\ cache' = [cache EXCEPT ![thread_local(t)] = Put(GetCache(t), key, output[t][p])]
        /\ wlog' = [wlog EXCEPT ![t] = Append(@, [key |-> key, val |-> output[t][p], pos |-> p])]
        /\ final' = [final EXCEPT ![t] = output[t][p].text]
        /\ status' = [status EXCEPT ![t][p] = "cached"]
        /\ IF widx[t] < Len(layer)
           THEN /\ widx' = [widx EXCEPT ![t] = @ + 1]
                /\ UNCHANGED <<pc, cur, ret>>
           ELSE IF cur[t] < Len(elayers[t])
           THEN /\ cur' = [cur EXCEPT ![t] = @ + 1]
                /\ pc' = [pc EXCEPT ![t] = "gather"]
                /\ UNCHANGED <<widx, ret>>
           ELSE /\ pc' = [pc EXCEPT ![t] = "done"]
                /\ ret' = [ret EXCEPT ![t] = output[t][p].text]
                /\ UNCHANGED <<widx, cur>>
  /\ UNCHANGED <<othersE, variant, script, mode, esteps, elayers, filled, output,
                 failed, rlog>>

\* phase3_execute when asyncio.run raises RuntimeError (a loop is already
\* running): reset the cache, parse, return early or start the loop over
\* steps in declaration order.
SeqStart(t) ==
  /\ pc[t] = "idle"
  /\ mode' = [mode EXCEPT ![t] = "seq"]
  /\ cache' = [cache EXCEPT ![thread_local(t)] = <<>>]
  /\ LET ss == parse_script(script[t])
     IN /\ esteps' = [esteps EXCEPT ![t] = ss]
        /\ status' = [status EXCEPT ![t] = [p \in DOMAIN ss |-> "new"]]
        /\ filled' = [filled EXCEPT ![t] = [p \in DOMAIN ss |-> <<>>]]
        /\ output' = [output EXCEPT ![t] = [p \in DOMAIN ss |-> Piece("", "none")]]
        /\ IF ss = <<>>
           THEN /\ pc' = [pc EXCEPT ![t] = "done"]
                /\ ret' = [ret EXCEPT ![t] = NoStepsReturn(variant)]
                /\ UNCHANGED cur
           ELSE /\ pc' = [pc EXCEPT ![t] = "fill"]
                /\ cur' = [cur EXCEPT ![t] = 1]
                /\ UNCHANGED ret
  /\ final' = [final EXCEPT ![t] = ""]
  /\ UNCHANGED <<othersE, variant, script, elayers, failed, widx, wlog, rlog>>

\* The sequential loop substitutes the template of the next step and calls
\* the collaborator.
SeqFill(t) ==
  /\ pc[t] = "fill"
  /\ filled' = [filled EXCEPT ![t][cur[t]] =
                  substitute_variables(esteps[t][cur[t]].instr, GetCache(t))]
  /\ status' = [status EXCEPT ![t][cur[t]] = "awaiting"]
  /\ pc' = [pc EXCEPT ![t] = "call"]
  /\ UNCHANGED <<othersE, variant, script, mode, cache, esteps, elayers, cur,
                 output, failed, widx, final, ret, wlog, rlog>>

\* The blocking collaborator call returns r or raises.  methods/anot.py
\* catches the exception in _execute_step; methods/anot/core.py calls
\* call_llm unguarded, so the exception leaves phase3_execute.
SeqReturn(t, r) ==
  /\ pc[t] = "call"
  /\ LET p == cur[t]
         key == esteps[t][p].idx
         out == Piece(StepOutput(variant, r), t)
     IN IF r = Raises /\ variant = "core"
        THEN /\ pc' = [pc EXCEPT ![t] = "raised"]
             /\ failed' = [failed EXCEPT ![t] = @ \cup {p}]
             /\ UNCHANGED <<cache, wlog, final, status, output, cur, ret>>
        ELSE /\ output' = [output EXCEPT ![t][p] = out]
             /\ failed' = [failed EXCEPT ![t] = IF r = Raises THEN @ \cup {p} ELSE @]
             /\ cache' = [cache EXCEPT ![thread_local(t)] = Put(GetCache(t), key, out)]
             /\ wlog' = [wlog EXCEPT ![t] = Append(@, [key |-> key, val |-> out, pos |-> p])]
             /\ final' = [final EXCEPT ![t] = out.text]
             /\ status' = [status EXCEPT ![t][p] = "cached"]
             /\ IF p < Len(esteps[t])
                THEN /\ cur' = [cur EXCEPT ![t] = @ + 1]
                     /\ pc' = [pc EXCEPT ![t] = "fill"]
                     /\ UNCHANGED ret
                ELSE /\ pc' = [pc EXCEPT ![t] = "done"]
                     /\ ret' = [ret EXCEPT ![t] = out.text]
                     /\ UNCHANGED cur
  /\ UNCHANGED <<othersE, variant, script, mode, esteps, elayers, filled, widx, rlog>>

NextExec ==
  \/ \E t \in Threads : ExecStart(t)
  \/ \E t \in Threads : \E p \in DOMAIN esteps[t] : StepStart(t, p)
  \/ \E t \in Threads : \E p \in DOMAIN esteps[t] : \E r \in Replies \cup {Raises} : StepReturn(t, p, r)
  \/ \E t \in Threads : GatherDone(t)
  \/ \E t \in Threads : CacheWrite(t)
  \/ \E t \in Threads : SeqStart(t)
  \/ \E t \in Threads : SeqFill(t)
  \/ \E t \in Threads : \E r \in Replies \cup {Raises} : SeqReturn(t, r)

SpecExec == InitExec /\ [][NextExec]_vars

\* ------------------------------------------------------------------------
\* Specification of the rate limiter: init_rate_limiter, _get_async_semaphore
\* and call_llm_async, called by coroutines of several event loops
\* ------------------------------------------------------------------------

\* Largest max_concurrent that is configured.
MaxLimit == 2

\* Most init_rate_limiter calls made after the start.
MaxInits == 1

\* The coroutines that call call_llm_async, and the event loops (one per
\* thread that entered asyncio.run) they run on.
Callers == {"c1", "c2", "c3"}

Loops == {"l1", "l2"}

Limits == 1..MaxLimit

\* asyncio.Semaphore(value): its counter and the loop it is bound to.
NewSemaphore(value) == [value |-> value, bound |-> "none"]

\* Semaphore.locked(), no waiter being cancelled.
Waiters(k) == {c \in Callers : cpc[c] = "waiting" /\ csem[c] = k}

Locked(k) == sems[k].value = 0 \/ Waiters(k) # {}

\* The collaborator calls in flight inside call_llm_async.
InFlight == {c \in Callers : cpc[c] = "inflight"}

\* The state after config_llm has called init_rate_limiter(m): the
\* semaphore is created lazily by the first call.
InitGate ==
  /\ max_concurrent \in Limits
  /\ async_semaphore = 0
  /\ sems = <<>>
  /\ inits = 0
  /\ cloop \in [Callers -> Loops]
  /\ cpc = [c \in Callers |-> "idle"]
  /\ csem = [c \in Callers |-> 0]
  /\ running = [l \in Loops |-> "none"]
  /\ variant = "core"
  /\ script = [t \in Threads |-> <<>>]
  /\ ExecIdle
  /\ LayersIdle
  /\ RankIdle
  /\ FinalIdle
  /\ SubstIdle
  /\ ParseIdle
  /\ MethodIdle
  /\ BatchIdle
  /\ ScanIdle
  /\ RetryIdle
  /\ ClientIdle
  /\ HierIdle
  /\ ToolsIdle
  /\ ScoreIdle
  /\ PermitIdle
  /\ PlanIdle

\* init_rate_limiter(m), called from any thread at any time.
InitRateLimiter(m) ==
  /\ inits < MaxInits
  /\ inits' = inits + 1
  /\ max_concurrent' = m
  /\ async_semaphore' = 0
  /\ UNCHANGED <<sems, cloop, cpc, csem, running, othersG>>

\* call_llm_async is entered and _get_async_semaphore tests
\* "_async_semaphore is None".  The coroutine runs on its loop until its next
\* await; another thread may run in between.
GetSemCheck(c) ==
  /\ cpc[c] = "idle"
  /\ running[cloop[c]] = "none"
  /\ running' = [running EXCEPT ![cloop[c]] = c]
  /\ cpc' = [cpc EXCEPT ![c] = IF async_semaphore = 0 THEN "create" ELSE "return"]
  /\ UNCHANGED <<max_concurrent, async_semaphore, sems, inits, cloop, csem, othersG>>

\* _async_semaphore = asyncio.Semaphore(_max_concurrent)
GetSemCreate(c) ==
  /\ cpc[c] = "create"
  /\ sems' = Append(sems, NewSemaphore(max_concurrent))
  /\ async_semaphore' = Len(sems) + 1
  /\ cpc' = [cpc EXCEPT ![c] = "return"]
  /\ UNCHANGED <<max_concurrent, inits, cloop, csem, running, othersG>>

\* "return _async_semaphore" reads the global again; "async with None" raises.
GetSemReturn(c) ==
  /\ cpc[c] = "return"
  /\ IF async_semaphore = 0
     THEN /\ cpc' = [cpc EXCEPT ![c] = "error"]
          /\ running' = [running EXCEPT ![cloop[c]] = "none"]
          /\ UNCHANGED csem
     ELSE /\ cpc' = [cpc EXCEPT ![c] = "acquire"]
          /\ csem' = [csem EXCEPT ![c] = async_semaphore]
          /\ UNCHANGED running
  /\ UNCHANGED <<max_concurrent, async_semaphore, sems, inits, cloop, othersG>>

\* Semaphore.acquire: "if not self.locked()".  A locked semaphore makes the
\* coroutine wait on a future of its loop; _get_loop raises RuntimeError when
\* the semaphore is bound to another loop.
AcquireCheck(c) ==
  /\ cpc[c] = "acquire"
  /\ LET k == csem[c]
     IN IF ~Locked(k)
        THEN /\ cpc' = [cpc EXCEPT ![c] = "decrement"]
             /\ UNCHANGED <<sems, running>>
        ELSE /\ running' = [running EXCEPT ![cloop[c]] = "none"]
             /\ IF sems[k].bound \in {"none", cloop[c]}
                THEN /\ sems' = [sems EXCEPT ![k].bound = cloop[c]]
                     /\ cpc' = [cpc EXCEPT ![c] = "waiting"]
                ELSE /\ cpc' = [cpc EXCEPT ![c] = "error"]
                     /\ UNCHANGED sems
  /\ UNCHANGED <<max_concurrent, async_semaphore, inits, cloop, csem, othersG>>

\* "self._value -= 1; return True", then the collaborator call is awaited.
AcquireDecrement(c) ==
  /\ cpc[c] = "decrement"
  /\ sems' = [sems EXCEPT ![csem[c]].value = @ - 1]
  /\ cpc' = [cpc EXCEPT ![c] = "inflight"]
  /\ running' = [running EXCEPT ![cloop[c]] = "none"]
  /\ UNCHANGED <<max_concurrent, async_semaphore, inits, cloop, csem, othersG>>

\* The collaborator call returns or raises and "async with sem" exits:
\* release() adds one to the counter and _wake_up_next hands it to a waiter.
Release(c) ==
  /\ cpc[c] = "inflight"
  /\ running[cloop[c]] = "none"
  /\ LET k == csem[c]
     IN IF Waiters(k) = {}
        THEN /\ sems' = [sems EXCEPT ![k].value = @ + 1]
             /\ cpc' = [cpc EXCEPT ![c] = "done"]
        ELSE /\ \E w \in Waiters(k) :
                  cpc' = [cpc EXCEPT ![c] = "done", ![w] = "inflight"]
             /\ UNCHANGED sems
  /\ UNCHANGED <<max_concurrent, async_semaphore, inits, cloop, csem, running, othersG>>

NextGate ==
  \/ \E m \in Limits : InitRateLimiter(m)
  \/ \E c \in Callers : GetSemCheck(c)
  \/ \E c \in Callers : GetSemCreate(c)
  \/ \E c \in Callers : GetSemReturn(c)
  \/ \E c \in Callers : AcquireCheck(c)
  \/ \E c \in Callers : AcquireDecrement(c)
  \/ \E c \in Callers : Release(c)

SpecGate == InitGate /\ [][NextGate]_vars

\* ------------------------------------------------------------------------
\* Specification of the final parse of evaluate_ranking
\* ------------------------------------------------------------------------

\* Longest output text, largest n_items and largest k.
MaxTextLen == 5

MaxItems == 2

MaxK == 2

\* The characters of an output text: digits, a letter, a separator.
RankChars == {"1", "2", "x", " "}

Digits == {"1", "2"}

\* Characters that \b counts as word characters: digits, letters, "_".
WordChars == {"1", "2", "x"}

RankTexts == UNION {[1..n -> RankChars] : n \in 0..MaxTextLen}

\* int(match.group(1)) of a run of digits.
RECURSIVE IntOf(_)
IntOf(ds) ==
  IF ds = <<>> THEN 0
  ELSE LET n == Len(ds)
       IN 10 * IntOf(SubSeq(ds, 1, n - 1)) + (IF ds[n] = "1" THEN 1 ELSE 2)

\* The last position of the run of digits that starts at position i.
RECURSIVE RunEnd(_, _)
RunEnd(text, i) ==
  IF i < Len(text) /\ text[i + 1] \in Digits THEN RunEnd(text, i + 1) ELSE i

\* A word boundary \b lies before position i (i = Len + 1: at the end).
Boundary(text, i) ==
  LET before == i > 1 /\ text[i - 1] \in WordChars
      after == i <= Len(text) /\ text[i] \in WordChars
  IN before # after

\* re.finditer(r'\b(\d+)\b', text) from position i on: the integers of the
\* matches, scanning left to right.
RECURSIVE FindIter(_, _)
FindIter(text, i) ==
  IF i > Len(text) THEN <<>>
  ELSE IF text[i] \in Digits /\ Boundary(text, i)
  THEN LET e == RunEnd(text, i)
       IN (IF Boundary(text, e + 1) THEN <<IntOf(SubSeq(text, i, e))>> ELSE <<>>)
            \o FindIter(text, e + 1)
  ELSE FindIter(text, i + 1)

\* "if 1 <= idx <= n_items and idx not in indices".
KeepsRepeats(idx, n, indices) == 1 <= idx /\ idx <= n

Keeps(idx, n, indices) ==
  /\ 1 <= idx /\ idx <= n
  /\ \A j \in DOMAIN indices : indices[j] # idx

Min(a, b) == IF a <= b THEN a ELSE b

\* list(range(1, min(k, n_items) + 1))
IdentityRanking(k, n) == [i \in 1..Min(k, n) |-> i]

\* indices[:k] for k >= 0.
Prefix(seq, k) == SubSeq(seq, 1, Min(k, Len(seq)))

InitRank ==
  /\ r_output \in RankTexts
  /\ r_n_items \in 0..MaxItems
  /\ r_k \in 0..MaxK
  /\ r_matches = FindIter(r_output, 1)
  /\ r_indices = <<>>
  /\ r_top_k = <<>>
  /\ r_pc = "scan"
  /\ variant = "core"
  /\ script = [t \in Threads |-> <<>>]
  /\ ExecIdle
  /\ LayersIdle
  /\ GateIdle
  /\ FinalIdle
  /\ SubstIdle
  /\ ParseIdle
  /\ MethodIdle
  /\ BatchIdle
  /\ ScanIdle
  /\ RetryIdle
  /\ ClientIdle
  /\ HierIdle
  /\ ToolsIdle
  /\ ScoreIdle
  /\ PermitIdle
  /\ PlanIdle

\* One pass of "for match in re.finditer(...)" that appends idx.
RankAppend ==
  /\ r_pc = "scan"
  /\ r_matches # <<>>
  /\ Keeps(Head(r_matches), r_n_items, r_indices)
  /\ r_indices' = Append(r_indices, Head(r_matches))
  /\ r_matches' = Tail(r_matches)
  /\ UNCHANGED <<r_output, r_n_items, r_k, r_top_k, r_pc, othersR>>

\* One pass that leaves indices alone: idx out of range or already there.
RankSkip ==
  /\ r_pc = "scan"
  /\ r_matches # <<>>
  /\ ~Keeps(Head(r_matches), r_n_items, r_indices)
  /\ r_matches' = Tail(r_matches)
  /\ UNCHANGED <<r_output, r_n_items, r_k, r_indices, r_top_k, r_pc, othersR>>

\* After the loop: "if not indices" falls back to the identity ranking, and
\* top_k = indices[:k].
RankFinish ==
  /\ r_pc = "scan"
  /\ r_matches = <<>>
  /\ LET ind == IF r_indices = <<>> THEN IdentityRanking(r_k, r_n_items) ELSE r_indices
     IN /\ r_indices' = ind
        /\ r_top_k' = Prefix(ind, r_k)
  /\ r_pc' = "done"
  /\ UNCHANGED <<r_output, r_n_items, r_k, r_matches, othersR>>

NextRank ==
  \/ RankAppend
  \/ RankSkip
  \/ RankFinish

SpecRank == InitRank /\ [][NextRank]_vars

\* ------------------------------------------------------------------------
\* Specification of parse_final_answer (knot.py and rnot.py)
\* ------------------------------------------------------------------------

\* Most pieces an output text is made of.
MaxPieces == 3

\* The pieces of an output text, as sequences of characters: single
\* characters, the words "not", "Not" and "recommend", and the phrase
\* "not recommend".
Pieces ==
  { <<" ">>, <<":">>, <<".">>, <<"-">>, <<"1">>, <<"0">>, <<"x">>,
    <<"n", "o", "t">>, <<"N", "o", "t">>,
    <<"r", "e", "c", "o", "m", "m", "e", "n", "d">>,
    <<"n", "o", "t", " ", "r", "e", "c", "o", "m", "m", "e", "n", "d">> }

RECURSIVE Flatten(_)
Flatten(ps) == IF ps = <<>> THEN <<>> ELSE Head(ps) \o Flatten(Tail(ps))

\* The output texts: the concatenations of up to MaxPieces pieces.
FinalTexts == {Flatten(ps) : ps \in UNION {[1..n -> Pieces] : n \in 0..MaxPieces}}

\* Characters str.strip() removes and \s matches.
Whitespace == {" "}

\* output.strip()
RECURSIVE strip(_)
strip(str) ==
  IF str = <<>> THEN <<>>
  ELSE IF Head(str) \in Whitespace THEN strip(Tail(str))
  ELSE IF str[Len(str)] \in Whitespace THEN strip(SubSeq(str, 1, Len(str) - 1))
  ELSE str

\* output.lower()
lower(str) == [i \in DOMAIN str |-> IF str[i] = "N" THEN "n" ELSE str[i]]

\* "sub in str"
Contains(str, sub) ==
  \E i \in 1..(Len(str) - Len(sub) + 1) : SubSeq(str, i, i + Len(sub) - 1) = sub

\* The literals of parse_final_answer.
MinusOne == <<"-", "1">>

Zero == <<"0">>

One == <<"1">>

Recommend == <<"r", "e", "c", "o", "m", "m", "e", "n", "d">>

Not == <<"n", "o", "t">>

NotRecommend == Not \o <<" ">> \o Recommend

\* int(text) for one of the three literals.
IntOfAnswer(lit) == IF lit = MinusOne THEN -1 ELSE IF lit = Zero THEN 0 ELSE 1

NoMatch == [found |-> FALSE, val |-> 0]

\* The literal lit stands at position j and (?:\s|$|\.) matches after it.
LiteralAt(str, j, lit) ==
  LET e == j + Len(lit)
  IN /\ e - 1 <= Len(str)
     /\ SubSeq(str, j, e - 1) = lit
     /\ (e = Len(str) + 1 \/ str[e] \in Whitespace \cup {"."})

\* (-1|0|1)(?:\s|$|\.) tried at position j, the alternatives in order.
TokenAt(str, j) ==
  IF LiteralAt(str, j, MinusOne) THEN [found |-> TRUE, val |-> -1]
  ELSE IF LiteralAt(str, j, Zero) THEN [found |-> TRUE, val |-> 0]
  ELSE IF LiteralAt(str, j, One) THEN [found |-> TRUE, val |-> 1]
  ELSE NoMatch

\* The pattern tried with the match starting at position i: "^" (only at
\* the start of the text), then [:\s].
MatchAt(str, i) ==
  IF i = 1 /\ TokenAt(str, 1).found THEN TokenAt(str, 1)
  ELSE IF i <= Len(str) /\ str[i] \in {":"} \cup Whitespace THEN TokenAt(str, i + 1)
  ELSE NoMatch

\* re.search(r'(?:^|[:\s])(-1|0|1)(?:\s|$|\.)', str): the leftmost match.
RECURSIVE SearchFrom(_, _)
SearchFrom(str, i) ==
  IF i > Len(str) + 1 THEN NoMatch
  ELSE IF MatchAt(str, i).found THEN MatchAt(str, i)
  ELSE SearchFrom(str, i + 1)

\* "recommend" in lower and "not" not in lower
RecommendsIgnoringNot(low) == Contains(low, Recommend)

Recommends(low) == Contains(low, Recommend) /\ ~Contains(low, Not)

InitFinal ==
  /\ fa_output \in FinalTexts
  /\ fa_result = 0
  /\ fa_pc = "start"
  /\ variant = "core"
  /\ script = [t \in Threads |-> <<>>]
  /\ ExecIdle
  /\ LayersIdle
  /\ GateIdle
  /\ RankIdle
  /\ SubstIdle
  /\ ParseIdle
  /\ MethodIdle
  /\ BatchIdle
  /\ ScanIdle
  /\ RetryIdle
  /\ ClientIdle
  /\ HierIdle
  /\ ToolsIdle
  /\ ScoreIdle
  /\ PermitIdle
  /\ PlanIdle

\* "if output in ["-1", "0", "1"]: return int(output)" on the stripped text.
FinalExact ==
  /\ fa_pc = "start"
  /\ strip(fa_output) \in {MinusOne, Zero, One}
  /\ fa_result' = IntOfAnswer(strip(fa_output))
  /\ fa_pc' = "done"
  /\ UNCHANGED <<fa_output, othersF>>

\* "if match: return int(match.group(1))".
FinalMatch ==
  /\ fa_pc = "start"
  /\ strip(fa_output) \notin {MinusOne, Zero, One}
  /\ LET match == SearchFrom(strip(fa_output), 1)
     IN /\ match.found
        /\ fa_result' = match.val
  /\ fa_pc' = "done"
  /\ UNCHANGED <<fa_output, othersF>>

\* The keyword rules on the lower-cased text.
FinalKeywords ==
  /\ fa_pc = "start"
  /\ strip(fa_output) \notin {MinusOne, Zero, One}
  /\ ~SearchFrom(strip(fa_output), 1).found
  /\ LET low == lower(strip(fa_output))
     IN fa_result' = IF Contains(low, NotRecommend) THEN -1
                     ELSE IF Recommends(low) THEN 1
                     ELSE 0
  /\ fa_pc' = "done"
  /\ UNCHANGED <<fa_output, othersF>>

NextFinal ==
  \/ FinalExact
  \/ FinalMatch
  \/ FinalKeywords

SpecFinal == InitFinal /\ [][NextFinal]_vars

\* ------------------------------------------------------------------------
\* Specification of substitute_variables (knot.py) on a reference with
\* accessors
\* ------------------------------------------------------------------------

\* Longest accessor chain of a reference.
MaxAccessors == 3

\* The values: None, a set, strings, maps and lists.  A string carries the
\* container ast.literal_eval makes of it, if any.
VNone == [t |-> "none"]

VSet == [t |-> "set"]

NoLiteral == [t |-> "nolit"]

Str(text) == [t |-> "str", text |-> text, lit |-> NoLiteral]

StrLiteral(container) == [t |-> "str", text |-> "literal", lit |-> container]

Map(kv) == [t |-> "map", kv |-> kv]

List(items) == [t |-> "list", items |-> items]

\* A map key: a string or an integer, written by its text.
StrKey(text) == [ty |-> "str", text |-> text]

IntKey(text) == [ty |-> "int", text |-> text]

\* The bracket contents of the accessors: a key, a text that is no key, a
\* digit that is a key and a valid index, a digit that is a valid index
\* only, a digit that is neither.
Accessors == {"k", "z", "0", "1", "9"}

\* acc.isdigit()
IsDigitAcc(acc) == acc \in {"0", "1", "9"}

\* int(acc)
IntOfAcc(acc) == IF acc = "0" THEN 0 ELSE IF acc = "1" THEN 1 ELSE 9

AccessorChains == UNION {[1..n -> Accessors] : n \in 0..MaxAccessors}

\* The structured data reached through {(context)}: items by key, with a
\* null attribute, a list with a null element and an item under an integer
\* key.
Doc ==
  Map( (StrKey("k") :> Map( (StrKey("k") :> VNone)
                            @@ (StrKey("0") :> List(<<Str("txt"), VNone>>)) ))
       @@ (IntKey("0") :> Map( (StrKey("k") :> Str("txt")) )) )

\* The argument context: the data, or the text of its literal.
Contexts == {Doc, StrLiteral(Doc)}

\* The argument query.
SubstQuery == Str("txt")

\* The argument cache: step outputs (strings) by step ID.
SubstCache ==
  ("a" :> Str("txt"))
  @@ ("b" :> StrLiteral(List(<<Str("txt"), VNone>>)))
  @@ ("c" :> StrLiteral(Map( (StrKey("k") :> VNone) @@ (IntKey("0") :> VNone) )))
  @@ ("u" :> StrLiteral(List(<<List(<<VSet>>)>>)))
  @@ ("2.rev.0" :> Str("txt"))

\* The names of the references: fixed inputs, cached step IDs, a step ID that
\* is not cached, and hierarchical step IDs, cached and not.
RefNames == {"input", "context", "a", "b", "c", "u", "m", "2.rev.0", "2.rev.1"}

\* The names (\w+) of the pattern r'\{\((\w+)\)\}((?:\[[^\]]+\])*)' matches.
PatternMatches(name) == name \notin {"2.rev.0", "2.rev.1"}

\* "if var == 'input' ... elif var == 'context' ... else cache.get(var, '')"
BaseValue(var, context) ==
  IF var = "input" THEN SubstQuery
  ELSE IF var = "context" THEN context
  ELSE IF var \in DOMAIN SubstCache THEN SubstCache[var]
  ELSE Str("")

\* "if isinstance(val, str) and accessors": ast.literal_eval, kept when it
\* gives a dict, list or tuple.
ParseLiteral(val, accessors) ==
  IF val.t = "str" /\ accessors # <<>> /\ val.lit # NoLiteral THEN val.lit ELSE val

\* val.get(acc, val.get(int(acc)) if acc.isdigit() else '') for a dict.
MapGetStringKeysOnly(m, acc) ==
  IF StrKey(acc) \in DOMAIN m.kv THEN m.kv[StrKey(acc)]
  ELSE IF IsDigitAcc(acc) THEN VNone
  ELSE Str("")

MapGet(m, acc) ==
  IF StrKey(acc) \in DOMAIN m.kv THEN m.kv[StrKey(acc)]
  ELSE IF IsDigitAcc(acc)
  THEN (IF IntKey(acc) \in DOMAIN m.kv THEN m.kv[IntKey(acc)] ELSE VNone)
  ELSE Str("")

\* The key acc is missing from the dict, as a string and as an integer.
KeyMissing(m, acc) ==
  StrKey(acc) \notin DOMAIN m.kv /\ IntKey(acc) \notin DOMAIN m.kv

\* val[idx] if 0 <= idx < len(val) else ''
ListGet(l, idx) == IF idx < Len(l.items) THEN l.items[idx + 1] ELSE Str("")

\* One pass of "for acc in re.findall(...)".
ApplyAccessorNullAsEmpty(val, acc) ==
  LET r == IF val.t = "map" THEN MapGet(val, acc)
           ELSE IF val.t = "list" /\ IsDigitAcc(acc) THEN ListGet(val, IntOfAcc(acc))
           ELSE Str("")
  IN IF r = VNone THEN Str("") ELSE r

ApplyAccessor(val, acc) ==
  IF val.t = "map" THEN MapGet(val, acc)
  ELSE IF val.t = "list" /\ IsDigitAcc(acc) THEN ListGet(val, IntOfAcc(acc))
  ELSE Str("")

\* json.dumps accepts the value: no set inside.
RECURSIVE Serializable(_)
Serializable(val) ==
  IF val.t = "set" THEN FALSE
  ELSE IF val.t = "list" THEN \A i \in DOMAIN val.items : Serializable(val.items[i])
  ELSE IF val.t = "map" THEN \A key \in DOMAIN val.kv : Serializable(val.kv[key])
  ELSE TRUE

\* "return json.dumps(val)" for a dict, list or tuple, else "return str(val)".
\* "RAISES" stands for the TypeError of json.dumps.
Render(val) ==
  IF val.t \in {"map", "list"} THEN (IF Serializable(val) THEN "json" ELSE "RAISES")
  ELSE IF val.t = "none" THEN "None"
  ELSE IF val.t = "set" THEN "set"
  ELSE val.text

\* The reference as it stands in the template.
Marker == "{(...)}"

InitSubst ==
  /\ s_var \in RefNames
  /\ s_chain \in AccessorChains
  /\ s_context \in Contexts
  /\ s_accs = <<>>
  /\ s_val = <<>>
  /\ s_missed = FALSE
  /\ s_out = ""
  /\ s_pc = "start"
  /\ variant = "core"
  /\ script = [t \in Threads |-> <<>>]
  /\ ExecIdle
  /\ LayersIdle
  /\ GateIdle
  /\ RankIdle
  /\ FinalIdle
  /\ ParseIdle
  /\ MethodIdle
  /\ BatchIdle
  /\ ScanIdle
  /\ RetryIdle
  /\ ClientIdle
  /\ HierIdle
  /\ ToolsIdle
  /\ ScoreIdle
  /\ PermitIdle
  /\ PlanIdle

\* re.sub finds no match for the reference: it stays in the result.
SubstNoMatch ==
  /\ s_pc = "start"
  /\ ~PatternMatches(s_var)
  /\ s_out' = Marker
  /\ s_pc' = "done"
  /\ UNCHANGED <<s_var, s_chain, s_context, s_accs, s_val, s_missed, othersS>>

\* _sub up to the loop over the accessors: the base value, reparsed as a
\* literal when accessors follow.
SubstBase ==
  /\ s_pc = "start"
  /\ PatternMatches(s_var)
  /\ s_val' = ParseLiteral(BaseValue(s_var, s_context), s_chain)
  /\ s_accs' = s_chain
  /\ s_pc' = "access"
  /\ UNCHANGED <<s_var, s_chain, s_context, s_missed, s_out, othersS>>

\* One pass of the loop over the accessors.
SubstAccess ==
  /\ s_pc = "access"
  /\ s_accs # <<>>
  /\ LET acc == Head(s_accs)
     IN /\ s_val' = ApplyAccessor(s_val, acc)
        /\ s_missed' = (\/ s_missed
                        \/ (s_val.t = "map" /\ KeyMissing(s_val, acc))
                        \/ (s_val.t = "list" /\ IsDigitAcc(acc)
                              /\ ~(IntOfAcc(acc) < Len(s_val.items))))
  /\ s_accs' = Tail(s_accs)
  /\ UNCHANGED <<s_var, s_chain, s_context, s_out, s_pc, othersS>>

\* After the loop: the value is returned as text, or json.dumps raises.
SubstReturn ==
  /\ s_pc = "access"
  /\ s_accs = <<>>
  /\ s_out' = Render(s_val)
  /\ s_pc' = "done"
  /\ UNCHANGED <<s_var, s_chain, s_context, s_accs, s_val, s_missed, othersS>>

NextSubst ==
  \/ SubstNoMatch
  \/ SubstBase
  \/ SubstAccess
  \/ SubstReturn

SpecSubst == InitSubst /\ [][NextSubst]_vars

\* ------------------------------------------------------------------------
\* Specification of parse_script (knot.py), one action per line of the script
\* ------------------------------------------------------------------------

\* Most lines of a script.
MaxLines == 2

\* The characters \d and \s match, and the two quotes.
DigitTokens == {"1"}

SpaceTokens == {" "}

QuoteTokens == {"\"", "'"}

\* The IDs of the declarations: digits, letters and digits, dotted, with an
\* underscore.
DeclIds == { <<"1">>, <<"c", "1">>, <<"1", ".", "c", ".", "1">>, <<"c", "_", "1">> }

\* The instruction texts: a word, two words, a text with an apostrophe
\* before a closing parenthesis.
DeclInstrs == { <<"x">>, <<"x", " ", "x">>, <<"x", "'", ")", "x">> }

\* What stands before the declaration on its line: nothing, or other text.
DeclLeads == { <<>>, <<"x", " ">> }

\* The lines: declarations (lead)(id) = LLM(q1 instr q2) with or without a
\* space on each side of "=", an empty line, prose, and prose with "=LLM(".
DeclLines ==
  { l \in [kind : {"decl"}, lead : DeclLeads, id : DeclIds, sp1 : BOOLEAN,
           sp2 : BOOLEAN, q1 : QuoteTokens, q2 : QuoteTokens, instr : DeclInstrs] :
      /\ ~(l.q1 = "'" /\ l.q2 = "\"")
      /\ (\E i \in DOMAIN l.instr : l.instr[i] = "'") => (l.q1 = "\"" /\ l.q2 = "\"") }

OtherLine(text) ==
  [kind |-> "other", lead |-> text, id |-> <<>>, sp1 |-> FALSE, sp2 |-> FALSE,
   q1 |-> "\"", q2 |-> "\"", instr |-> <<>>]

ScriptLines ==
  DeclLines \cup {OtherLine(<<>>), OtherLine(<<"x", " ", "x">>),
                  OtherLine(<<"x", "=", "LLM", "(", "x">>)}

Spaces(b) == IF b THEN <<" ">> ELSE <<>>

\* The characters of a line; LLM counts as one.
LineText(l) ==
  IF l.kind = "other" THEN l.lead
  ELSE l.lead \o <<"(">> \o l.id \o <<")">> \o Spaces(l.sp1) \o <<"=">> \o Spaces(l.sp2)
       \o <<"LLM", "(", l.q1>> \o l.instr \o <<l.q2, ")">>

\* The first position from i on whose character is outside set.
RECURSIVE SkipWhile(_, _, _)
SkipWhile(text, i, set) ==
  IF i <= Len(text) /\ text[i] \in set THEN SkipWhile(text, i + 1, set) ELSE i

\* r'\((\d+)\)\s*=\s*LLM' matches at position i.
IdxMatchAt(text, i) ==
  /\ text[i] = "("
  /\ LET j == SkipWhile(text, i + 1, DigitTokens)
     IN /\ j > i + 1
        /\ j <= Len(text)
        /\ text[j] = ")"
        /\ LET k == SkipWhile(text, j + 1, SpaceTokens)
           IN /\ k <= Len(text)
              /\ text[k] = "="
              /\ LET m == SkipWhile(text, k + 1, SpaceTokens)
                 IN m <= Len(text) /\ text[m] = "LLM"

\* re.search(r'\((\d+)\)\s*=\s*LLM', line): the positions of its matches.
IdxMatches(text) == {i \in DOMAIN text : IdxMatchAt(text, i)}

\* idx_match.group(1) of the leftmost match.
IdxGroup(text) ==
  LET i == CHOOSE i \in IdxMatches(text) : \A i2 \in IdxMatches(text) : i <= i2
  IN SubSeq(text, i + 1, SkipWhile(text, i + 1, DigitTokens) - 1)

\* The positions j of a quote followed by ")" that can close (.+?) opened by
\* LLM(" at position i.
InstrEnds(text, i) ==
  {j \in (i + 4)..(Len(text) - 1) : text[j] \in QuoteTokens /\ text[j + 1] = ")"}

\* r'LLM\(["\'](.+?)["\']\)' matches at position i.
InstrMatchAt(text, i) ==
  /\ i + 2 <= Len(text)
  /\ text[i] = "LLM"
  /\ text[i + 1] = "("
  /\ text[i + 2] \in QuoteTokens
  /\ InstrEnds(text, i) # {}

InstrMatches(text) == {i \in DOMAIN text : InstrMatchAt(text, i)}

\* instr_match.group(1) of the leftmost match, ended by the first quote
\* followed by ")".
InstrGroup(text) ==
  LET i == CHOOSE i \in InstrMatches(text) : \A i2 \in InstrMatches(text) : i <= i2
      j == CHOOSE j \in InstrEnds(text, i) : \A j2 \in InstrEnds(text, i) : j <= j2
  IN SubSeq(text, i + 3, j - 1)

\* The body of the loop of parse_script for one line: what it appends to
\* steps.
parse_line(text) ==
  IF ~Contains(text, <<"=", "LLM", "(">>) THEN <<>>
  ELSE IF IdxMatches(text) # {} /\ InstrMatches(text) # {}
  THEN <<[idx |-> IdxGroup(text), instr |-> InstrGroup(text)]>>
  ELSE <<>>

InitParse ==
  /\ p_line = <<>>
  /\ p_steps = <<>>
  /\ p_n = 0
  /\ p_pc = "loop"
  /\ variant = "core"
  /\ script = [t \in Threads |-> <<>>]
  /\ ExecIdle
  /\ LayersIdle
  /\ GateIdle
  /\ RankIdle
  /\ FinalIdle
  /\ SubstIdle
  /\ MethodIdle
  /\ BatchIdle
  /\ ScanIdle
  /\ RetryIdle
  /\ ClientIdle
  /\ HierIdle
  /\ ToolsIdle
  /\ ScoreIdle
  /\ PermitIdle
  /\ PlanIdle

\* One pass of "for line in script.split('\n')".
ParseLine(l) ==
  /\ p_pc = "loop"
  /\ p_n < MaxLines
  /\ p_line' = l
  /\ p_steps' = p_steps \o parse_line(LineText(l))
  /\ p_n' = p_n + 1
  /\ UNCHANGED <<p_pc, othersP>>

\* "return steps" after the last line.
ParseReturn ==
  /\ p_pc = "loop"
  /\ p_pc' = "done"
  /\ UNCHANGED <<p_line, p_steps, p_n, othersP>>

NextParse ==
  \/ \E l \in ScriptLines : ParseLine(l)
  \/ ParseReturn

SpecParse == InitParse /\ [][NextParse]_vars

\* ------------------------------------------------------------------------
\* Specification of method (knot.py, rnot.py) called for concurrent requests
\* ------------------------------------------------------------------------

\* The requests: the calls of method that run at the same time.
Requests == {"r1", "r2"}

\* Most executor instances the check "_executor is None" can create.
MaxInstances == 2

\* steps = parse_script(...): a step and a step that refers to it.
MethodSteps ==
  << [idx |-> "0", instr |-> <<Txt>>],
     [idx |-> "1", instr |-> <<Txt, Ref("0")>>] >>

\* "except Exception: output = '0'" around call_llm.
MethodOutput(r) == IF r = Raises THEN "0" ELSE r

InitMethod ==
  /\ m_executor = 0
  /\ m_instances = 0
  /\ m_cache = [i \in 1..MaxInstances |-> <<>>]
  /\ m_self = [r \in Requests |-> 0]
  /\ m_cur = [r \in Requests |-> 0]
  /\ m_filled = [r \in Requests |-> <<>>]
  /\ m_wlog = [r \in Requests |-> <<>>]
  /\ m_pc = [r \in Requests |-> "idle"]
  /\ variant = "core"
  /\ script = [t \in Threads |-> <<>>]
  /\ ExecIdle
  /\ LayersIdle
  /\ GateIdle
  /\ RankIdle
  /\ FinalIdle
  /\ SubstIdle
  /\ ParseIdle
  /\ BatchIdle
  /\ ScanIdle
  /\ RetryIdle
  /\ ClientIdle
  /\ HierIdle
  /\ ToolsIdle
  /\ ScoreIdle
  /\ PermitIdle
  /\ PlanIdle

\* A request calls method(query, context).
MethodEnter(r) ==
  /\ m_pc[r] = "idle"
  /\ m_pc' = [m_pc EXCEPT ![r] = "check"]
  /\ UNCHANGED <<m_executor, m_instances, m_cache, m_self, m_cur, m_filled, m_wlog, othersM>>

\* "if _executor is None".
MethodCheck(r) ==
  /\ m_pc[r] = "check"
  /\ m_pc' = [m_pc EXCEPT ![r] = IF m_executor = 0 THEN "create" ELSE "call"]
  /\ UNCHANGED <<m_executor, m_instances, m_cache, m_self, m_cur, m_filled, m_wlog, othersM>>

\* "_executor = SimpleNetworkOfThought()": __init__ sets self.cache = {}.
MethodCreate(r) ==
  /\ m_pc[r] = "create"
  /\ m_instances < MaxInstances
  /\ m_instances' = m_instances + 1
  /\ m_executor' = m_instances + 1
  /\ m_cache' = [m_cache EXCEPT ![m_instances + 1] = <<>>]
  /\ m_pc' = [m_pc EXCEPT ![r] = "call"]
  /\ UNCHANGED <<m_self, m_cur, m_filled, m_wlog, othersM>>

\* "_executor.solve(query, context)": the global is read and solve starts on
\* that instance.
MethodCall(r) ==
  /\ m_pc[r] = "call"
  /\ m_self' = [m_self EXCEPT ![r] = m_executor]
  /\ m_pc' = [m_pc EXCEPT ![r] = "reset"]
  /\ UNCHANGED <<m_executor, m_instances, m_cache, m_cur, m_filled, m_wlog, othersM>>

\* "self.cache = {}" and "steps = parse_script(...)".
SolveReset(r) ==
  /\ m_pc[r] = "reset"
  /\ m_cache' = [m_cache EXCEPT ![m_self[r]] = <<>>]
  /\ m_wlog' = [m_wlog EXCEPT ![r] = <<>>]
  /\ m_cur' = [m_cur EXCEPT ![r] = 1]
  /\ m_pc' = [m_pc EXCEPT ![r] = "fill"]
  /\ UNCHANGED <<m_executor, m_instances, m_self, m_filled, othersM>>

\* "filled = substitute_variables(instr, query, context, self.cache)" and the
\* start of call_llm.
SolveFill(r) ==
  /\ m_pc[r] = "fill"
  /\ m_filled' = [m_filled EXCEPT ![r] =
                    substitute_variables(MethodSteps[m_cur[r]].instr, m_cache[m_self[r]])]
  /\ m_pc' = [m_pc EXCEPT ![r] = "llm"]
  /\ UNCHANGED <<m_executor, m_instances, m_cache, m_self, m_cur, m_wlog, othersM>>

\* call_llm returns reply or raises; "self.cache[idx] = ..." and the next
\* pass of the loop, or the return of the parsed final output.
SolveStore(r, reply) ==
  /\ m_pc[r] = "llm"
  /\ LET key == MethodSteps[m_cur[r]].idx
         out == Piece(MethodOutput(reply), r)
     IN /\ m_cache' = [m_cache EXCEPT ![m_self[r]] = Put(@, key, out)]
        /\ m_wlog' = [m_wlog EXCEPT ![r] = Append(@, [key |-> key, val |-> out, pos |-> m_cur[r]])]
  /\ IF m_cur[r] < Len(MethodSteps)
     THEN /\ m_cur' = [m_cur EXCEPT ![r] = @ + 1]
          /\ m_pc' = [m_pc EXCEPT ![r] = "fill"]
     ELSE /\ m_pc' = [m_pc EXCEPT ![r] = "done"]
          /\ UNCHANGED m_cur
  /\ UNCHANGED <<m_executor, m_instances, m_self, m_filled, othersM>>

NextMethod ==
  \/ \E r \in Requests : MethodEnter(r)
  \/ \E r \in Requests : MethodCheck(r)
  \/ \E r \in Requests : MethodCreate(r)
  \/ \E r \in Requests : MethodCall(r)
  \/ \E r \in Requests : SolveReset(r)
  \/ \E r \in Requests : SolveFill(r)
  \/ \E r \in Requests : \E reply \in Replies \cup {Raises} : SolveStore(r, reply)

SpecMethod == InitMethod /\ [][NextMethod]_vars

\* ------------------------------------------------------------------------
\* Specification of evaluate_ranking (run.py)
\* ------------------------------------------------------------------------

\* Most requests of a batch, and most worker threads of the pool.
MaxRequests == 2

MaxWorkers == 2

\* What the calls inside the try of evaluate_ranking_single do for a
\* request: method.evaluate_ranking or parse_indices raises, or the parsed
\* ranking.
BatchOutcomes ==
  { [raised |-> TRUE, pred |-> <<>>],
    [raised |-> FALSE, pred |-> <<1>>],
    [raised |-> FALSE, pred |-> <<2, 1>>] }

\* The value None.
NoResult == [none |-> TRUE, request_id |-> 0, pred_indices |-> <<>>]

\* evaluate_ranking_single for the request at position i: None without
\* ground truth, else the record, with pred_indices = [] when the try block
\* raised.
evaluate_ranking_single_drops_failed(i, gt, outcome) ==
  IF ~gt \/ outcome.raised THEN NoResult
  ELSE [none |-> FALSE, request_id |-> i, pred_indices |-> outcome.pred]

evaluate_ranking_single(i, gt, outcome) ==
  IF ~gt THEN NoResult
  ELSE [none |-> FALSE, request_id |-> i,
        pred_indices |-> IF outcome.raised THEN <<>> ELSE outcome.pred]

\* "if result: results.append(result)"
AppendResult(results, result) ==
  IF result.none THEN results ELSE Append(results, result)

\* The requests in a given state.
InState(st) == {i \in DOMAIN b_requests : b_state[i] = st}

InitBatch ==
  /\ b_parallel \in BOOLEAN
  /\ b_max_workers \in 1..MaxWorkers
  /\ \E n \in 0..MaxRequests :
       /\ b_requests \in [1..n -> BOOLEAN]
       /\ b_outcome \in [1..n -> BatchOutcomes]
       /\ b_state = [i \in 1..n |-> "new"]
       /\ b_result = [i \in 1..n |-> NoResult]
  /\ b_results = <<>>
  /\ b_pc = "start"
  /\ variant = "core"
  /\ script = [t \in Threads |-> <<>>]
  /\ ExecIdle
  /\ LayersIdle
  /\ GateIdle
  /\ RankIdle
  /\ FinalIdle
  /\ SubstIdle
  /\ ParseIdle
  /\ MethodIdle
  /\ ScanIdle
  /\ RetryIdle
  /\ ClientIdle
  /\ HierIdle
  /\ ToolsIdle
  /\ ScoreIdle
  /\ PermitIdle
  /\ PlanIdle

\* parallel: every request is submitted to the pool.
BatchSubmit ==
  /\ b_pc = "start"
  /\ b_parallel
  /\ b_state' = [i \in DOMAIN b_requests |-> "queued"]
  /\ b_pc' = "collect"
  /\ UNCHANGED <<b_parallel, b_max_workers, b_requests, b_outcome, b_result, b_results, othersB>>

\* A free worker thread takes the oldest queued call.
WorkerStart(i) ==
  /\ b_pc = "collect"
  /\ b_state[i] = "queued"
  /\ \A j \in InState("queued") : i <= j
  /\ Cardinality(InState("running")) < b_max_workers
  /\ b_state' = [b_state EXCEPT ![i] = "running"]
  /\ UNCHANGED <<b_parallel, b_max_workers, b_requests, b_outcome, b_result, b_results,
                 b_pc, othersB>>

\* evaluate_ranking_single returns in its worker thread.
WorkerFinish(i) ==
  /\ b_pc = "collect"
  /\ b_state[i] = "running"
  /\ b_result' = [b_result EXCEPT ![i] = evaluate_ranking_single(i, b_requests[i], b_outcome[i])]
  /\ b_state' = [b_state EXCEPT ![i] = "finished"]
  /\ UNCHANGED <<b_parallel, b_max_workers, b_requests, b_outcome, b_results, b_pc, othersB>>

\* One pass of "for future in as_completed(futures)".
BatchCollect(i) ==
  /\ b_pc = "collect"
  /\ b_state[i] = "finished"
  /\ b_results' = AppendResult(b_results, b_result[i])
  /\ b_state' = [b_state EXCEPT ![i] = "collected"]
  /\ UNCHANGED <<b_parallel, b_max_workers, b_requests, b_outcome, b_result, b_pc, othersB>>

\* sequential: the loop "for req in requests" starts.
BatchLoopStart ==
  /\ b_pc = "start"
  /\ ~b_parallel
  /\ b_pc' = "loop"
  /\ UNCHANGED <<b_parallel, b_max_workers, b_requests, b_outcome, b_state, b_result,
                 b_results, othersB>>

\* One pass of the sequential loop, for the first request not yet done.
BatchLoopPass(i) ==
  /\ b_pc = "loop"
  /\ b_state[i] = "new"
  /\ \A j \in InState("new") : i <= j
  /\ LET result == evaluate_ranking_single(i, b_requests[i], b_outcome[i])
     IN /\ b_result' = [b_result EXCEPT ![i] = result]
        /\ b_results' = AppendResult(b_results, result)
  /\ b_state' = [b_state EXCEPT ![i] = "collected"]
  /\ UNCHANGED <<b_parallel, b_max_workers, b_requests, b_outcome, b_pc, othersB>>

\* After the last request: the results are returned.
BatchReturn ==
  /\ b_pc \in {"collect", "loop"}
  /\ \A i \in DOMAIN b_requests : b_state[i] = "collected"
  /\ b_pc' = "done"
  /\ UNCHANGED <<b_parallel, b_max_workers, b_requests, b_outcome, b_state, b_result,
                 b_results, othersB>>

NextBatch ==
  \/ BatchSubmit
  \/ \E i \in DOMAIN b_requests : WorkerStart(i)
  \/ \E i \in DOMAIN b_requests : WorkerFinish(i)
  \/ \E i \in DOMAIN b_requests : BatchCollect(i)
  \/ BatchLoopStart
  \/ \E i \in DOMAIN b_requests : BatchLoopPass(i)
  \/ BatchReturn

SpecBatch == InitBatch /\ [][NextBatch]_vars

\* ------------------------------------------------------------------------
\* Specification of re.sub in substitute_variables (knot.py), one action per
\* piece of the template
\* ------------------------------------------------------------------------

\* Most pieces of a template.
MaxTemplate == 3

\* The pieces of the templates: text, references to cached steps, to a step
\* that is not cached and to the fixed input.
ScanTokens == {Txt, Ref("a"), Ref("b"), Ref("m"), Ref("input")}

ScanTemplates == UNION {[1..n -> ScanTokens] : n \in 0..MaxTemplate}

\* The argument cache: the output of a holds the text of a reference to b.
ScanCache ==
  ("a" :> <<Txt, Ref("b")>>) @@ ("b" :> <<[kind |-> "txt", name |-> "yes"]>>)

\* The arguments query and context: the query holds the text of a reference
\* to a.
ScanQuery == <<Ref("a"), Txt>>

ScanContext == <<[kind |-> "txt", name |-> "FIXED"]>>

\* _sub(match) for a reference without accessors: str(val) of the fixed input
\* or of cache.get(var, '').
SubRescanned(tok) ==
  LET val == IF tok.name = "input" THEN ScanQuery
             ELSE IF tok.name = "context" THEN ScanContext
             ELSE IF tok.name \in DOMAIN ScanCache THEN ScanCache[tok.name]
             ELSE <<>>
  IN Flatten([i \in DOMAIN val |->
                IF val[i].kind = "ref" /\ val[i].name \in DOMAIN ScanCache
                THEN ScanCache[val[i].name] ELSE <<val[i]>>])

Sub(tok) ==
  IF tok.name = "input" THEN ScanQuery
  ELSE IF tok.name = "context" THEN ScanContext
  ELSE IF tok.name \in DOMAIN ScanCache THEN ScanCache[tok.name]
  ELSE <<>>

InitScan ==
  /\ t_template \in ScanTemplates
  /\ t_pos = 1
  /\ t_out = <<>>
  /\ t_lookups = 0
  /\ t_pc = "scan"
  /\ variant = "core"
  /\ script = [t \in Threads |-> <<>>]
  /\ ExecIdle
  /\ LayersIdle
  /\ GateIdle
  /\ RankIdle
  /\ FinalIdle
  /\ SubstIdle
  /\ ParseIdle
  /\ MethodIdle
  /\ BatchIdle
  /\ RetryIdle
  /\ ClientIdle
  /\ HierIdle
  /\ ToolsIdle
  /\ ScoreIdle
  /\ PermitIdle
  /\ PlanIdle

\* re.sub copies the text up to the next match.
ScanText ==
  /\ t_pc = "scan"
  /\ t_pos <= Len(t_template)
  /\ t_template[t_pos].kind = "txt"
  /\ t_out' = Append(t_out, t_template[t_pos])
  /\ t_pos' = t_pos + 1
  /\ UNCHANGED <<t_template, t_lookups, t_pc, othersT>>

\* re.sub calls _sub for the next match and appends what it returns; the
\* scan goes on behind the match in the template.
ScanReference ==
  /\ t_pc = "scan"
  /\ t_pos <= Len(t_template)
  /\ t_template[t_pos].kind = "ref"
  /\ t_out' = t_out \o Sub(t_template[t_pos])
  /\ t_lookups' = t_lookups + 1
  /\ t_pos' = t_pos + 1
  /\ UNCHANGED <<t_template, t_pc, othersT>>

\* The end of the template: re.sub returns.
ScanReturn ==
  /\ t_pc = "scan"
  /\ t_pos > Len(t_template)
  /\ t_pc' = "done"
  /\ UNCHANGED <<t_template, t_pos, t_out, t_lookups, othersT>>

NextScan ==
  \/ ScanText
  \/ ScanReference
  \/ ScanReturn

SpecScan == InitScan /\ [][NextScan]_vars

\* ------------------------------------------------------------------------
\* Specification of _call_openai_sync and _call_openai_async (utils/llm.py)
\* ------------------------------------------------------------------------

\* Largest value of _config["max_retries"].
MaxRetries == 3

\* What the try block of an attempt does: it returns the response, or raises
\* an error with a class name and a status_code (0 when it has none).
Success == [ok |-> TRUE, name |-> "", status |-> 0]

Failure(cls, code) == [ok |-> FALSE, name |-> cls, status |-> code]

AttemptOutcomes ==
  { Success,
    Failure("RateLimitError", 429),
    Failure("APIConnectionError", 0),
    Failure("APIStatusError", 503),
    Failure("APIStatusError", 404),
    Failure("ValueError", 0) }

\* _should_retry_openai_exc(e)
should_retry_openai_exc(e) ==
  \/ e.name \in {"APIConnectionError", "APITimeoutError", "RateLimitError",
                 "InternalServerError", "ServiceUnavailableError"}
  \/ e.status \in {429, 500, 502, 503, 504}

\* range(max(1, _config["max_retries"]))
AttemptRange(max_retries) == 0..((IF max_retries > 1 THEN max_retries ELSE 1) - 1)

\* "if _should_retry_openai_exc(e) and attempt < _config['max_retries'] - 1"
RetriesAnyError(e, attempt, max_retries) == attempt < max_retries - 1

Retries(e, attempt, max_retries) ==
  should_retry_openai_exc(e) /\ attempt < max_retries - 1

InitRetry ==
  /\ a_async \in BOOLEAN
  /\ a_max_retries \in 0..MaxRetries
  /\ a_attempt = 0
  /\ a_log = <<>>
  /\ a_pc = "try"
  /\ variant = "core"
  /\ script = [t \in Threads |-> <<>>]
  /\ ExecIdle
  /\ LayersIdle
  /\ GateIdle
  /\ RankIdle
  /\ FinalIdle
  /\ SubstIdle
  /\ ParseIdle
  /\ MethodIdle
  /\ BatchIdle
  /\ ScanIdle
  /\ ClientIdle
  /\ HierIdle
  /\ ToolsIdle
  /\ ScoreIdle
  /\ PermitIdle
  /\ PlanIdle

\* The try block of the current attempt returns the response.
AttemptReturns ==
  /\ a_pc = "try"
  /\ a_log' = Append(a_log, Success)
  /\ a_pc' = "returned"
  /\ UNCHANGED <<a_async, a_max_retries, a_attempt, othersA>>

\* The try block raises e and the handler sleeps and continues with the next
\* attempt; when the range is used up, "raise last_err" follows the loop.
AttemptRetried(e) ==
  /\ a_pc = "try"
  /\ ~e.ok
  /\ Retries(e, a_attempt, a_max_retries)
  /\ a_log' = Append(a_log, e)
  /\ IF a_attempt + 1 \in AttemptRange(a_max_retries)
     THEN a_attempt' = a_attempt + 1 /\ UNCHANGED a_pc
     ELSE a_pc' = "raised" /\ UNCHANGED a_attempt
  /\ UNCHANGED <<a_async, a_max_retries, othersA>>

\* The try block raises e and the handler re-raises it.
AttemptRaises(e) ==
  /\ a_pc = "try"
  /\ ~e.ok
  /\ ~Retries(e, a_attempt, a_max_retries)
  /\ a_log' = Append(a_log, e)
  /\ a_pc' = "raised"
  /\ UNCHANGED <<a_async, a_max_retries, a_attempt, othersA>>

NextRetry ==
  \/ AttemptReturns
  \/ \E e \in AttemptOutcomes : AttemptRetried(e)
  \/ \E e \in AttemptOutcomes : AttemptRaises(e)

SpecRetry == InitRetry /\ [][NextRetry]_vars

\* ------------------------------------------------------------------------
\* Specification of _get_openai_client and _get_async_openai_client
\* (utils/llm.py)
\* ------------------------------------------------------------------------

\* Number of threads calling the function.
MaxCallers == 3

\* Number of calls each thread makes.
MaxCalls == 2

ClientCallers == 1..MaxCallers

\* "_openai_client = None"
NoClient == <<>>

\* The n-th object the constructor openai.OpenAI (openai.AsyncOpenAI) made.
ClientObject(n) == <<n>>

\* "if _openai_client is not None: return _openai_client" before the lock;
\* the global is written once, so both reads see the same object.
ClientMissing(client) == client = NoClient

\* "if _openai_client is not None: return _openai_client" under the lock.
ClientMissingUnchecked(client) == TRUE

ClientMissingUnderLock(client) == client = NoClient

InitClient ==
  /\ c_async \in BOOLEAN
  /\ c_client = NoClient
  /\ c_lock = 0
  /\ c_built = 0
  /\ c_pc = [t \in ClientCallers |-> "idle"]
  /\ c_calls = [t \in ClientCallers |-> 0]
  /\ c_got = [t \in ClientCallers |-> {}]
  /\ variant = "core"
  /\ script = [t \in Threads |-> <<>>]
  /\ ExecIdle
  /\ LayersIdle
  /\ GateIdle
  /\ RankIdle
  /\ FinalIdle
  /\ SubstIdle
  /\ ParseIdle
  /\ MethodIdle
  /\ BatchIdle
  /\ ScanIdle
  /\ RetryIdle
  /\ HierIdle
  /\ ToolsIdle
  /\ ScoreIdle
  /\ PermitIdle
  /\ PlanIdle

\* Thread t calls the function.
ClientCall(t) ==
  /\ c_pc[t] = "idle"
  /\ c_calls[t] < MaxCalls
  /\ c_calls' = [c_calls EXCEPT ![t] = @ + 1]
  /\ c_pc' = [c_pc EXCEPT ![t] = "check"]
  /\ UNCHANGED <<c_async, c_client, c_lock, c_built, c_got, othersC>>

\* The check before the lock: return the client, or go on to the lock.
ClientCheck(t) ==
  /\ c_pc[t] = "check"
  /\ IF ClientMissing(c_client)
     THEN /\ c_pc' = [c_pc EXCEPT ![t] = "lock"]
          /\ UNCHANGED c_got
     ELSE /\ c_pc' = [c_pc EXCEPT ![t] = "idle"]
          /\ c_got' = [c_got EXCEPT ![t] = @ \cup {c_client}]
  /\ UNCHANGED <<c_async, c_client, c_lock, c_built, c_calls, othersC>>

\* "with _openai_client_lock:" is entered when the lock is free.
ClientAcquire(t) ==
  /\ c_pc[t] = "lock"
  /\ c_lock = 0
  /\ c_lock' = t
  /\ c_pc' = [c_pc EXCEPT ![t] = "recheck"]
  /\ UNCHANGED <<c_async, c_client, c_built, c_calls, c_got, othersC>>

\* The check under the lock: leave the with block returning the client, or
\* go on to construct it.
ClientRecheck(t) ==
  /\ c_pc[t] = "recheck"
  /\ IF ClientMissingUnderLock(c_client)
     THEN /\ c_pc' = [c_pc EXCEPT ![t] = "build"]
          /\ UNCHANGED <<c_lock, c_got>>
     ELSE /\ c_pc' = [c_pc EXCEPT ![t] = "idle"]
          /\ c_lock' = 0
          /\ c_got' = [c_got EXCEPT ![t] = @ \cup {c_client}]
  /\ UNCHANGED <<c_async, c_client, c_built, c_calls, othersC>>

\* The http client and the client are constructed and the client is stored
\* in the global; the lock is still held.
ClientBuild(t) ==
  /\ c_pc[t] = "build"
  /\ c_built' = c_built + 1
  /\ c_client' = ClientObject(c_built + 1)
  /\ c_pc' = [c_pc EXCEPT ![t] = "return"]
  /\ UNCHANGED <<c_async, c_lock, c_calls, c_got, othersC>>

\* "import openai" or a constructor raises: the with block is left, nothing
\* is stored and the call raises.
ClientBuildRaises(t) ==
  /\ c_pc[t] = "build"
  /\ c_lock' = 0
  /\ c_pc' = [c_pc EXCEPT ![t] = "idle"]
  /\ UNCHANGED <<c_async, c_client, c_built, c_calls, c_got, othersC>>

\* "return _openai_client" at the end of the with block.
ClientReturn(t) ==
  /\ c_pc[t] = "return"
  /\ c_lock' = 0
  /\ c_got' = [c_got EXCEPT ![t] = @ \cup {c_client}]
  /\ c_pc' = [c_pc EXCEPT ![t] = "idle"]
  /\ UNCHANGED <<c_async, c_client, c_built, c_calls, othersC>>

NextClient ==
  \/ \E t \in ClientCallers : ClientCall(t)
  \/ \E t \in ClientCallers : ClientCheck(t)
  \/ \E t \in ClientCallers : ClientAcquire(t)
  \/ \E t \in ClientCallers : ClientRecheck(t)
  \/ \E t \in ClientCallers : ClientBuild(t)
  \/ \E t \in ClientCallers : ClientBuildRaises(t)
  \/ \E t \in ClientCallers : ClientReturn(t)

SpecClient == InitClient /\ [][NextClient]_vars

\* ------------------------------------------------------------------------
\* Specification of run_hierarchical_phase2 and ReActAgent
\* (extracted_dag_async/phase2_hierarchical.py)
\* ------------------------------------------------------------------------

\* "MAX_DEPTH = 3  # 0=main, 1=item, 2=review"
MAX_DEPTH == 3

\* The iteration limit of an agent, standing for MAX_ITERATIONS[depth].
MaxIterations == 2

\* The most tasks one run creates, the main agent's included.
MaxTasks == 3

\* The keys of the items, and the indices of an item's reviews.
HierItems == {"1", "2"}

HierReviews == {"0"}

\* Which items meet every hard condition: item 1 only, or both items.
HierPasses ==
  { [i \in HierItems |-> i = "1"], [i \in HierItems |-> TRUE] }

\* A collaborator response, by the tool calls the regular expressions of
\* _exec_tools find in it: the items of check_hard(N), the ids of spawn(N) in
\* the order of the text, and whether it holds wait_all(), an emit(...), a
\* skip("...") and done().
Resp(check, spawn, wait_all, emit, skip, done) ==
  [check |-> check, spawn |-> spawn, wait_all |-> wait_all, emit |-> emit,
   skip |-> skip, done |-> done]

NoResp == Resp({}, <<>>, FALSE, FALSE, FALSE, FALSE)

\* The responses tried; NoResp is a response that holds text and no tool.
HierResponses ==
  { NoResp,
    Resp({"1", "2"}, <<>>, FALSE, FALSE, FALSE, FALSE),
    Resp({}, <<"1", "1">>, FALSE, FALSE, FALSE, FALSE),
    Resp({}, <<"2">>, TRUE, FALSE, FALSE, FALSE),
    Resp({}, <<"0">>, FALSE, FALSE, FALSE, FALSE),
    Resp({}, <<>>, FALSE, FALSE, TRUE, FALSE),
    Resp({}, <<>>, FALSE, TRUE, FALSE, TRUE) }

\* ReActAgent.__init__ and asyncio.create_task(sub.run()): a task at its
\* first collaborator call. "checked" is what the parent's hard_results held
\* for agent_id when the task was created.
NewTask(agent_id, depth, parent, checked) ==
  [id |-> agent_id, depth |-> depth, parent |-> parent, pc |-> "llm",
   iter |-> 0, subs |-> {}, skipped |-> FALSE, checked |-> checked,
   resp |-> NoResp, obs |-> <<>>]

\* _check_hard_conditions(item_id): an unknown item fails ("item not found").
check_hard_conditions(item_id) ==
  IF item_id \in HierItems /\ h_pass[item_id] THEN "pass" ELSE "fail"

\* _can_spawn
can_spawn(depth) == depth < MAX_DEPTH - 1

\* "if sub_id in self.sub_tasks"
NeverRunning(sub_id, subs) == FALSE

AlreadyRunning(sub_id, subs) == \E p \in subs : p[1] = sub_id

\* "if not sub_data": the main agent finds an item under sub_id, an item
\* agent a review at index sub_id; a review holds no reviews.
HasSubData(depth, sub_id) ==
  CASE depth = 0 -> sub_id \in HierItems
    [] depth = 1 -> sub_id \in HierReviews
    [] OTHER -> FALSE

\* One pass of the spawn loop of _exec_tools for task t.
SpawnOne(ts, t, sub_id, hard) ==
  IF ~can_spawn(ts[t].depth)
  THEN [ts EXCEPT ![t].obs = Append(@, "ERROR max depth")]
  ELSE IF AlreadyRunning(sub_id, ts[t].subs)
  THEN [ts EXCEPT ![t].obs = Append(@, "already running")]
  ELSE IF ~HasSubData(ts[t].depth, sub_id)
  THEN [ts EXCEPT ![t].obs = Append(@, "invalid")]
  ELSE Append([ts EXCEPT ![t].obs = Append(@, "started"),
                         ![t].subs = @ \cup {<<sub_id, Len(ts) + 1>>}],
              NewTask(sub_id, ts[t].depth + 1, t,
                      IF ts[t].depth = 0 THEN hard[sub_id] ELSE "none"))

RECURSIVE SpawnLoop(_, _, _, _)
SpawnLoop(ts, t, ids, hard) ==
  IF ids = <<>> THEN ts
  ELSE SpawnLoop(SpawnOne(ts, t, Head(ids), hard), t, Tail(ids), hard)

\* The gathered sub-agent tasks of t are all done.
SubTasksDone(ts, t) ==
  \A p \in ts[t].subs : ts[p[2]].pc \in {"finished", "error"}

\* The step an emit of task t adds: _step_prefix() and the task emitting it.
EmittedStep(ts, t) ==
  [by |-> t,
   prefix |-> CASE ts[t].depth = 1 -> <<"c", ts[t].id>>
                [] ts[t].depth = 2 -> <<"r", ts[ts[t].parent].id, ts[t].id>>
                [] OTHER -> <<>>]

\* run returns; when the main agent's run returns, run_hierarchical_phase2
\* returns a copy of the shared step list.
AgentFinish(t, ts, emitted) ==
  /\ h_tasks' = [ts EXCEPT ![t].pc = "finished", ![t].resp = NoResp]
  /\ IF t = 1
     THEN h_returned' = TRUE /\ h_result' = emitted
     ELSE UNCHANGED <<h_returned, h_result>>

\* _exec_tools from its emit loop on, and the rest of the run loop's pass.
AgentContinue(t, ts, r) ==
  LET emitted == IF r.emit THEN Append(h_steps, EmittedStep(ts, t)) ELSE h_steps IN
  /\ h_steps' = emitted
  /\ IF ts[t].depth > 0 /\ r.skip
     THEN AgentFinish(t, [ts EXCEPT ![t].skipped = TRUE], emitted)
     ELSE IF r.done
     THEN IF ts[t].subs # {}
          THEN /\ h_tasks' = [ts EXCEPT ![t].pc = "done_wait", ![t].resp = NoResp]
               /\ UNCHANGED <<h_returned, h_result>>
          ELSE AgentFinish(t, ts, emitted)
     ELSE IF ts[t].iter + 1 >= MaxIterations
     THEN AgentFinish(t, ts, emitted)
     ELSE /\ h_tasks' = [ts EXCEPT ![t].iter = @ + 1, ![t].pc = "llm",
                                   ![t].resp = NoResp]
          /\ UNCHANGED <<h_returned, h_result>>

InitHier ==
  /\ h_pass \in HierPasses
  /\ h_tasks = <<NewTask("main", 0, 0, "none")>>
  /\ h_hard = [i \in HierItems \cup HierReviews |-> "none"]
  /\ h_steps = <<>>
  /\ h_returned = FALSE
  /\ h_result = <<>>
  /\ variant = "core"
  /\ script = [t \in Threads |-> <<>>]
  /\ ExecIdle
  /\ LayersIdle
  /\ GateIdle
  /\ RankIdle
  /\ FinalIdle
  /\ SubstIdle
  /\ ParseIdle
  /\ MethodIdle
  /\ BatchIdle
  /\ ScanIdle
  /\ RetryIdle
  /\ ClientIdle
  /\ ToolsIdle
  /\ ScoreIdle
  /\ PermitIdle
  /\ PlanIdle

\* The collaborator answers task t with r and _exec_tools runs up to its
\* first await: the check_hard calls of the main agent, the spawn loop, and
\* either the gather of wait_all() or everything after it.
AgentRespond(t, r) ==
  /\ t \in DOMAIN h_tasks
  /\ h_tasks[t].pc = "llm"
  /\ LET hard == IF h_tasks[t].depth = 0
                 THEN [i \in DOMAIN h_hard |->
                         IF i \in r.check THEN check_hard_conditions(i) ELSE h_hard[i]]
                 ELSE h_hard
         ts == SpawnLoop([h_tasks EXCEPT ![t].obs = <<>>], t, r.spawn, hard)
     IN /\ Len(ts) <= MaxTasks
        /\ h_hard' = hard
        /\ IF r.wait_all /\ ts[t].subs # {}
           THEN /\ h_tasks' = [ts EXCEPT ![t].pc = "wait_all", ![t].resp = r]
                /\ UNCHANGED <<h_steps, h_returned, h_result>>
           ELSE AgentContinue(t, ts, r)
  /\ UNCHANGED <<h_pass, othersH>>

\* The collaborator answers with an empty response: the run loop breaks.
AgentEmptyResponse(t) ==
  /\ t \in DOMAIN h_tasks
  /\ h_tasks[t].pc = "llm"
  /\ AgentFinish(t, h_tasks, h_steps)
  /\ UNCHANGED <<h_pass, h_hard, h_steps, othersH>>

\* call_llm_async raises: the task ends with the exception.
AgentRaises(t) ==
  /\ t \in DOMAIN h_tasks
  /\ h_tasks[t].pc = "llm"
  /\ h_tasks' = [h_tasks EXCEPT ![t].pc = "error"]
  /\ UNCHANGED <<h_pass, h_hard, h_steps, h_returned, h_result, othersH>>

\* The gather of wait_all() is over: sub_tasks is cleared and _exec_tools
\* goes on.
AgentWaitAll(t) ==
  /\ t \in DOMAIN h_tasks
  /\ h_tasks[t].pc = "wait_all"
  /\ SubTasksDone(h_tasks, t)
  /\ AgentContinue(t, [h_tasks EXCEPT ![t].subs = {}], h_tasks[t].resp)
  /\ UNCHANGED <<h_pass, h_hard, othersH>>

\* The gather of done() is over: sub_tasks is cleared and run returns.
AgentDoneWait(t) ==
  /\ t \in DOMAIN h_tasks
  /\ h_tasks[t].pc = "done_wait"
  /\ SubTasksDone(h_tasks, t)
  /\ AgentFinish(t, [h_tasks EXCEPT ![t].subs = {}], h_steps)
  /\ UNCHANGED <<h_pass, h_hard, h_steps, othersH>>

NextHier ==
  \/ \E t \in 1..MaxTasks, r \in HierResponses : AgentRespond(t, r)
  \/ \E t \in 1..MaxTasks : AgentEmptyResponse(t)
  \/ \E t \in 1..MaxTasks : AgentRaises(t)
  \/ \E t \in 1..MaxTasks : AgentWaitAll(t)
  \/ \E t \in 1..MaxTasks : AgentDoneWait(t)

SpecHier == InitHier /\ [][NextHier]_vars

\* ------------------------------------------------------------------------
\* Specification of tool_add_step and tool_insert_step
\* (extracted_dag_async/tools.py)
\* ------------------------------------------------------------------------

\* Number of tool calls in a run.
MaxToolCalls == 3

\* The step IDs and the prompts the calls are made with; one prompt has a
\* quote in it and one holds the text "(final)=".
ToolIds == {"a", "b", "final"}

ToolPrompts ==
  { <<"x">>, <<"'">>, <<"see", "(", "final", ")", "=">> }

\* prompt.replace("'", "\\'")
EscapeQuotes(prompt) ==
  LET Esc[i \in 0..Len(prompt)] ==
        IF i = 0 THEN <<>>
        ELSE Esc[i - 1] \o (IF prompt[i] = "'" THEN <<"\\", "'">> ELSE <<prompt[i]>>)
  IN Esc[Len(prompt)]

\* f"({step_id})=LLM('{escaped_prompt}')"
NewStep(step_id, prompt) ==
  <<"(", step_id, ")", "=", "LLM", "(", "'">> \o EscapeQuotes(prompt) \o <<"'", ")">>

\* re.compile(rf'^\({re.escape(step_id)}\)=').match(step)
StepPatternMatches(step_id, step) ==
  Len(step) >= 4 /\ SubSeq(step, 1, 4) = <<"(", step_id, ")", "=">>

\* "for step in lwt_steps: if pattern.match(step)"
StepExists(step_id, lwt_steps) ==
  \E i \in DOMAIN lwt_steps : StepPatternMatches(step_id, lwt_steps[i])

\* The line declares the ID final.
HoldsFinalId(step) == StepPatternMatches("final", step)

\* "'(final)=' in step"
HoldsFinalText(step) == Contains(step, <<"(", "final", ")", "=">>)

\* "for i, step in enumerate(lwt_steps): if '(final)=' in step": the first
\* such index, 0 when there is none.
FirstFinalIndex(lwt_steps) ==
  LET hits == {i \in DOMAIN lwt_steps : HoldsFinalText(lwt_steps[i])}
  IN IF hits = {} THEN 0 ELSE CHOOSE i \in hits : \A j \in hits : i <= j

\* lwt_steps.insert(i, new_step) with i counted from 1
InsertAt(lwt_steps, i, new_step) ==
  SubSeq(lwt_steps, 1, i - 1) \o <<new_step>> \o SubSeq(lwt_steps, i, Len(lwt_steps))

\* The list insert-before-final-or-append leaves.
BeforeFinal(lwt_steps, new_step) ==
  IF FirstFinalIndex(lwt_steps) = 0
  THEN Append(lwt_steps, new_step)
  ELSE InsertAt(lwt_steps, FirstFinalIndex(lwt_steps), new_step)

InitTools ==
  /\ k_steps = <<>>
  /\ k_msg = ""
  /\ k_calls = 0
  /\ variant = "core"
  /\ script = [t \in Threads |-> <<>>]
  /\ ExecIdle
  /\ LayersIdle
  /\ GateIdle
  /\ RankIdle
  /\ FinalIdle
  /\ SubstIdle
  /\ ParseIdle
  /\ MethodIdle
  /\ BatchIdle
  /\ ScanIdle
  /\ RetryIdle
  /\ ClientIdle
  /\ HierIdle
  /\ ScoreIdle
  /\ PermitIdle
  /\ PlanIdle

\* tool_add_step(step_id, prompt, lwt_steps)
tool_add_step(step_id, prompt) ==
  /\ k_msg # "off"
  /\ k_calls < MaxToolCalls
  /\ k_calls' = k_calls + 1
  /\ IF StepExists(step_id, k_steps)
     THEN k_msg' = "exists" /\ UNCHANGED k_steps
     ELSE /\ k_msg' = "added"
          /\ k_steps' = IF step_id = "final"
                        THEN Append(k_steps, NewStep(step_id, prompt))
                        ELSE BeforeFinal(k_steps, NewStep(step_id, prompt))
  /\ UNCHANGED othersK

\* tool_insert_step(step_id, prompt, lwt_steps)
tool_insert_step(step_id, prompt) ==
  /\ k_msg # "off"
  /\ k_calls < MaxToolCalls
  /\ k_calls' = k_calls + 1
  /\ IF StepExists(step_id, k_steps)
     THEN k_msg' = "exists" /\ UNCHANGED k_steps
     ELSE /\ k_msg' = "added"
          /\ k_steps' = BeforeFinal(k_steps, NewStep(step_id, prompt))
  /\ UNCHANGED othersK

NextTools ==
  \/ \E step_id \in ToolIds, prompt \in ToolPrompts : tool_add_step(step_id, prompt)
  \/ \E step_id \in ToolIds, prompt \in ToolPrompts : tool_insert_step(step_id, prompt)

SpecTools == InitTools /\ [][NextTools]_vars

\* ------------------------------------------------------------------------
\* Specification of parse_score and the ranking of evaluate_ranking
\* (methods/anot.py)
\* ------------------------------------------------------------------------

\* Largest len(items) and largest k.
MaxScoreItems == 2

MaxTopK == 3

\* An out text is a sequence of tokens: a run of ASCII digits, the
\* superscript two (str.isdigit() accepts it, int() and \d do not), the word
\* score, a colon, a blank, a letter.
DigitRuns == {"0", "7", "10", "15"}

SuperscriptTwo == "sup2"

ScoreWords == {"score", "Score"}

\* int(...) of a run of ASCII digits
NumOf(tok) ==
  CASE tok = "0" -> 0
    [] tok = "7" -> 7
    [] tok = "10" -> 10
    [] tok = "15" -> 15

\* The outputs a scoring step is answered with.
ScoreOutputs ==
  { <<>>, <<"7">>, <<"10">>, <<"15">>, <<" ", "7", " ">>,
    <<"Score", ":", " ", "15">>, <<"score", "7", "x">>,
    <<"x", "7">>, <<"x", " ", "7">>, <<"x">>, <<"15", " ", "7">>,
    <<SuperscriptTwo>> }

\* Tokens made of word characters (\w).
ScoreWordTokens == DigitRuns \cup ScoreWords \cup {SuperscriptTwo, "x"}

\* output.isdigit()
IsDigitText(out) ==
  out # <<>> /\ \A i \in DOMAIN out : out[i] \in DigitRuns \cup {SuperscriptTwo}

\* int(output) raises ValueError unless every character is a decimal digit.
IntRaises(out) == \E i \in DOMAIN out : out[i] \notin DigitRuns

\* re.search(r'(?:score|out)[:\s]*(\d+)', output, re.IGNORECASE): the
\* positions of the digit runs of the matches.
RECURSIVE AfterSeparators(_, _)
AfterSeparators(out, i) ==
  IF i <= Len(out) /\ out[i] \in {":", " "}
  THEN AfterSeparators(out, i + 1) ELSE i

LabelledScores(out) ==
  { AfterSeparators(out, i + 1) : i \in {j \in DOMAIN out : out[j] \in ScoreWords} }
    \cap {j \in DOMAIN out : out[j] \in DigitRuns}

\* re.search(r'\b(\d+)\b', output): the positions of the matches.
StandaloneNumbers(out) ==
  { i \in DOMAIN out :
      /\ out[i] \in DigitRuns
      /\ (i = 1 \/ out[i - 1] \notin ScoreWordTokens)
      /\ (i = Len(out) \/ out[i + 1] \notin ScoreWordTokens) }

\* The first match's position.
First(positions) == CHOOSE i \in positions : \A j \in positions : i <= j

\* min(10, max(0, score))
Clamp(score) == IF score > 10 THEN 10 ELSE IF score < 0 THEN 0 ELSE score

\* parse_score(output): the score, or raised when int() raises.
Scored(n) == [raised |-> FALSE, score |-> n]

ScoreRaised == [raised |-> TRUE, score |-> 0]

parse_score(text) ==
  LET out == strip(text) IN
  IF IsDigitText(out) /\ IntRaises(out)
  THEN ScoreRaised
  ELSE IF IsDigitText(out) /\ NumOf(out[1]) <= 10
  THEN Scored(NumOf(out[1]))
  ELSE IF LabelledScores(out) # {}
  THEN Scored(Clamp(NumOf(out[First(LabelledScores(out))])))
  ELSE IF StandaloneNumbers(out) # {}
            /\ NumOf(out[First(StandaloneNumbers(out))]) <= 10
  THEN Scored(NumOf(out[First(StandaloneNumbers(out))]))
  ELSE Scored(0)

\* self._cache_get(str(i), "0")
CacheGet(c, i) == IF i \in DOMAIN c THEN c[i] ELSE <<"0">>

\* The score of item i (0-based) in the results list.
ItemScore(c, i) == parse_score(CacheGet(c, i)).score

\* sorted(results, key=lambda x: (-x[1], x[0])): the indices in that order.
RECURSIVE SortedByScore(_, _)
SortedByScore(c, left) ==
  IF left = {} THEN <<>>
  ELSE LET best == CHOOSE i \in left : \A j \in left :
                     \/ ItemScore(c, i) > ItemScore(c, j)
                     \/ ItemScore(c, i) = ItemScore(c, j) /\ i <= j
       IN <<best>> \o SortedByScore(c, left \ {best})

\* [str(r[0] + 1) for r in ranked[:k]]
TopK(ranked, k) ==
  [p \in 1..(IF k < Len(ranked) THEN k ELSE Len(ranked)) |-> ranked[p] + 1]

InitScore ==
  /\ q_n \in 0..MaxScoreItems
  /\ q_k \in 0..MaxTopK
  /\ q_cache = <<>>
  /\ q_run = {}
  /\ q_top = <<>>
  /\ q_pc = "phase3"
  /\ variant = "core"
  /\ script = [t \in Threads |-> <<>>]
  /\ ExecIdle
  /\ LayersIdle
  /\ GateIdle
  /\ RankIdle
  /\ FinalIdle
  /\ SubstIdle
  /\ ParseIdle
  /\ MethodIdle
  /\ BatchIdle
  /\ ScanIdle
  /\ RetryIdle
  /\ ClientIdle
  /\ HierIdle
  /\ ToolsIdle
  /\ PermitIdle
  /\ PlanIdle

\* phase3_execute runs the scoring step of item i: the collaborator answers
\* with output, which _cache_set stores.
ScoreStepReturns(i, out) ==
  /\ q_pc = "phase3"
  /\ i \in 0..(q_n - 1) \ q_run
  /\ q_run' = q_run \cup {i}
  /\ q_cache' = [j \in DOMAIN q_cache \cup {i} |-> IF j = i THEN out ELSE q_cache[j]]
  /\ UNCHANGED <<q_n, q_k, q_top, q_pc, othersQ>>

\* The collaborator call of the step raises: _execute_step stores "0".
ScoreStepFails(i) ==
  /\ q_pc = "phase3"
  /\ i \in 0..(q_n - 1) \ q_run
  /\ q_run' = q_run \cup {i}
  /\ q_cache' = [j \in DOMAIN q_cache \cup {i} |-> IF j = i THEN <<"0">> ELSE q_cache[j]]
  /\ UNCHANGED <<q_n, q_k, q_top, q_pc, othersQ>>

\* phase3_execute has returned: the results are parsed from the cache,
\* sorted and cut to k; a raising parse_score ends the call.
RankItems ==
  /\ q_pc = "phase3"
  /\ IF \E i \in 0..(q_n - 1) : parse_score(CacheGet(q_cache, i)).raised
     THEN q_pc' = "raised" /\ UNCHANGED q_top
     ELSE /\ q_pc' = "returned"
          /\ q_top' = TopK(SortedByScore(q_cache, 0..(q_n - 1)), q_k)
  /\ UNCHANGED <<q_n, q_k, q_cache, q_run, othersQ>>

NextScore ==
  \/ \E i \in 0..(MaxScoreItems - 1), out \in ScoreOutputs : ScoreStepReturns(i, out)
  \/ \E i \in 0..(MaxScoreItems - 1) : ScoreStepFails(i)
  \/ RankItems

SpecScore == InitScore /\ [][NextScore]_vars

\* ------------------------------------------------------------------------
\* Specification of the permits: call_llm on threads and call_llm_async on
\* one event loop, with every way a call can end
\* ------------------------------------------------------------------------

\* Most init_rate_limiter calls the main program makes after the start.
MaxPermitInits == 1

\* The threads that call call_llm and the coroutine that calls
\* call_llm_async (coroutines competing for one asyncio.Semaphore are the
\* callers of the rate limiter's specification above).
SyncCallers == {"s1", "s2"}

AsyncCallers == {"a1"}

PermitCallers == SyncCallers \cup AsyncCallers

\* The provider argument: "other" stands for every unknown name.
Providers == {"openai", "anthropic", "local", "other"}

\* The branches of "if provider == ..." that call a collaborator: call_llm
\* knows "local", call_llm_async does not.
KnownProvider(c, provider) ==
  IF c \in SyncCallers
  THEN provider \in {"openai", "anthropic", "local"}
  ELSE provider \in {"openai", "anthropic"}

\* How the collaborator call of a known provider ends: with the text, or
\* with the exception left after the retries.
CallOutcomes == {"returned", "provider_error"}

\* threading.Semaphore(value) or asyncio.Semaphore(value): its counter, and
\* the value it was created with (kept to state that permits are conserved).
NewPermits(value) == [value |-> value, created |-> value]

\* "with sem" and "async with sem" call release() in __exit__ and __aexit__
\* however the block is left.
ReleasedOnReturnOnly(outcome) == outcome = "returned"

ReleasedOnExit(outcome) == TRUE

\* The coroutine c may run: it is the one running, or no coroutine is.  A
\* thread may always run.
MayRun(c) == c \in SyncCallers \/ u_running \in {"none", c}

\* The event loop after a step of c that ends at an await or at the end of
\* the coroutine (yield = TRUE), or that goes on without awaiting.
RunningAfter(c, yield) ==
  IF c \in SyncCallers THEN u_running ELSE IF yield THEN "none" ELSE c

\* The state at the first call: the module as imported with the default
\* _max_concurrent and no semaphore, or after main has called
\* init_rate_limiter(m).
InitPermit ==
  /\ u_max \in Limits
  /\ u_sems \in {<<>>, <<NewPermits(u_max)>>}
  /\ u_api = Len(u_sems)
  /\ u_async = 0
  /\ u_inits = 0
  /\ u_pc = [c \in PermitCallers |-> "idle"]
  /\ u_sem = [c \in PermitCallers |-> 0]
  /\ u_exit = [c \in PermitCallers |-> "none"]
  /\ u_running = "none"
  /\ variant = "core"
  /\ script = [t \in Threads |-> <<>>]
  /\ ExecIdle
  /\ LayersIdle
  /\ GateIdle
  /\ RankIdle
  /\ FinalIdle
  /\ SubstIdle
  /\ ParseIdle
  /\ MethodIdle
  /\ BatchIdle
  /\ ScanIdle
  /\ RetryIdle
  /\ ClientIdle
  /\ HierIdle
  /\ ToolsIdle
  /\ ScoreIdle
  /\ PlanIdle

\* init_rate_limiter(m), called by the main program at any time.
PermitInitRateLimiter(m) ==
  /\ u_inits < MaxPermitInits
  /\ u_inits' = u_inits + 1
  /\ u_max' = m
  /\ u_sems' = Append(u_sems, NewPermits(m))
  /\ u_api' = Len(u_sems) + 1
  /\ u_async' = 0
  /\ UNCHANGED <<u_pc, u_sem, u_exit, u_running, othersU>>

\* call_llm or call_llm_async is entered; _get_semaphore tests
\* "_api_semaphore is None", _get_async_semaphore "_async_semaphore is None".
PermitGetCheck(c) ==
  /\ u_pc[c] = "idle"
  /\ MayRun(c)
  /\ LET global == IF c \in SyncCallers THEN u_api ELSE u_async
     IN u_pc' = [u_pc EXCEPT ![c] = IF global = 0 THEN "create" ELSE "return"]
  /\ u_running' = RunningAfter(c, FALSE)
  /\ UNCHANGED <<u_max, u_api, u_async, u_sems, u_inits, u_sem, u_exit, othersU>>

\* _get_semaphore calls init_rate_limiter(_max_concurrent), which also
\* resets _async_semaphore; _get_async_semaphore assigns
\* asyncio.Semaphore(_max_concurrent).
PermitGetCreate(c) ==
  /\ u_pc[c] = "create"
  /\ u_sems' = Append(u_sems, NewPermits(u_max))
  /\ IF c \in SyncCallers
     THEN /\ u_api' = Len(u_sems) + 1
          /\ u_async' = 0
     ELSE /\ u_async' = Len(u_sems) + 1
          /\ UNCHANGED u_api
  /\ u_pc' = [u_pc EXCEPT ![c] = "return"]
  /\ UNCHANGED <<u_max, u_inits, u_sem, u_exit, u_running, othersU>>

\* "return _api_semaphore" or "return _async_semaphore" reads the global
\* again; "async with None" raises before any permit is taken.
PermitGetReturn(c) ==
  /\ u_pc[c] = "return"
  /\ LET global == IF c \in SyncCallers THEN u_api ELSE u_async
     IN IF global = 0
        THEN /\ u_pc' = [u_pc EXCEPT ![c] = "done"]
             /\ u_exit' = [u_exit EXCEPT ![c] = "no_semaphore"]
             /\ u_running' = RunningAfter(c, TRUE)
             /\ UNCHANGED u_sem
        ELSE /\ u_pc' = [u_pc EXCEPT ![c] = "acquire"]
             /\ u_sem' = [u_sem EXCEPT ![c] = global]
             /\ UNCHANGED <<u_exit, u_running>>
  /\ UNCHANGED <<u_max, u_api, u_async, u_sems, u_inits, othersU>>

\* __enter__ / __aenter__: acquire().  With no permit free the thread
\* blocks, and the coroutine awaits a future and lets the loop run.
PermitAcquire(c) ==
  /\ u_pc[c] = "acquire"
  /\ MayRun(c)
  /\ IF u_sems[u_sem[c]].value > 0
     THEN /\ u_sems' = [u_sems EXCEPT ![u_sem[c]].value = @ - 1]
          /\ u_pc' = [u_pc EXCEPT ![c] = "inside"]
          /\ u_running' = RunningAfter(c, FALSE)
     ELSE /\ c \in AsyncCallers
          /\ u_running' = RunningAfter(c, TRUE)
          /\ UNCHANGED <<u_sems, u_pc>>
  /\ UNCHANGED <<u_max, u_api, u_async, u_inits, u_sem, u_exit, othersU>>

\* Leaving the block: release() if the context manager's exit runs.
LeaveBlock(c, outcome) ==
  /\ u_pc' = [u_pc EXCEPT ![c] = "done"]
  /\ u_exit' = [u_exit EXCEPT ![c] = outcome]
  /\ u_sems' = IF ReleasedOnExit(outcome)
               THEN [u_sems EXCEPT ![u_sem[c]].value = @ + 1]
               ELSE u_sems
  /\ u_running' = RunningAfter(c, TRUE)

\* The body of the block: a known provider's collaborator is called (and
\* awaited in call_llm_async); any other name raises ValueError at once.
PermitDispatch(c, provider) ==
  /\ u_pc[c] = "inside"
  /\ IF KnownProvider(c, provider)
     THEN /\ u_pc' = [u_pc EXCEPT ![c] = "inflight"]
          /\ u_running' = RunningAfter(c, TRUE)
          /\ UNCHANGED <<u_sems, u_exit>>
     ELSE LeaveBlock(c, "unknown_provider")
  /\ UNCHANGED <<u_max, u_api, u_async, u_inits, u_sem, othersU>>

\* The collaborator call returns its text or raises.
PermitCallEnds(c, outcome) ==
  /\ u_pc[c] = "inflight"
  /\ MayRun(c)
  /\ LeaveBlock(c, outcome)
  /\ UNCHANGED <<u_max, u_api, u_async, u_inits, u_sem, othersU>>

NextPermit ==
  \/ \E m \in Limits : PermitInitRateLimiter(m)
  \/ \E c \in PermitCallers : PermitGetCheck(c)
  \/ \E c \in PermitCallers : PermitGetCreate(c)
  \/ \E c \in PermitCallers : PermitGetReturn(c)
  \/ \E c \in PermitCallers : PermitAcquire(c)
  \/ \E c \in PermitCallers : \E provider \in Providers : PermitDispatch(c, provider)
  \/ \E c \in PermitCallers : \E outcome \in CallOutcomes : PermitCallEnds(c, outcome)

SpecPermit == InitPermit /\ [][NextPermit]_vars

\* ------------------------------------------------------------------------
\* Specification of the plan cache: evaluate_ranking (anot.py) called on one
\* instance by several threads
\* ------------------------------------------------------------------------

\* Most calls of evaluate_ranking a thread makes.
MaxRankCalls == 2

\* The context strings of the calls.
RankContexts == {"x", "y"}

\* No entry in lwt_cache.
Absent == "absent"

\* What phase1_explore returns: a plan, or an empty one.
ExploredPlans == {"plan", "empty"}

\* __init__: self.lwt_cache = {}; no call is in progress.
InitPlan ==
  /\ v_cache = [ctx \in RankContexts |-> Absent]
  /\ v_pc = [t \in Threads |-> "idle"]
  /\ v_ctx = [t \in Threads |-> "x"]
  /\ v_plan = [t \in Threads |-> Absent]
  /\ v_calls = [t \in Threads |-> 0]
  /\ v_explored = [ctx \in RankContexts |-> 0]
  /\ variant = "core"
  /\ script = [t \in Threads |-> <<>>]
  /\ ExecIdle
  /\ LayersIdle
  /\ GateIdle
  /\ RankIdle
  /\ FinalIdle
  /\ SubstIdle
  /\ ParseIdle
  /\ MethodIdle
  /\ BatchIdle
  /\ ScanIdle
  /\ RetryIdle
  /\ ClientIdle
  /\ HierIdle
  /\ ToolsIdle
  /\ ScoreIdle
  /\ PermitIdle

\* A thread calls evaluate_ranking(query, context, k) and reaches Phase 1.
RankCall(t, context) ==
  /\ v_pc[t] = "idle"
  /\ v_calls[t] < MaxRankCalls
  /\ v_calls' = [v_calls EXCEPT ![t] = @ + 1]
  /\ v_ctx' = [v_ctx EXCEPT ![t] = context]
  /\ v_plan' = [v_plan EXCEPT ![t] = Absent]
  /\ v_pc' = [v_pc EXCEPT ![t] = "check"]
  /\ UNCHANGED <<v_cache, v_explored, othersV>>

\* "if context not in self.lwt_cache": phase1_explore is called, or the
\* stored plan is read.
RankCheck(t) ==
  /\ v_pc[t] = "check"
  /\ IF v_cache[v_ctx[t]] = Absent
     THEN /\ v_explored' = [v_explored EXCEPT ![v_ctx[t]] = @ + 1]
          /\ v_pc' = [v_pc EXCEPT ![t] = "explore"]
          /\ UNCHANGED v_plan
     ELSE /\ v_plan' = [v_plan EXCEPT ![t] = v_cache[v_ctx[t]]]
          /\ v_pc' = [v_pc EXCEPT ![t] = "planned"]
          /\ UNCHANGED v_explored
  /\ UNCHANGED <<v_cache, v_ctx, v_calls, othersV>>

\* phase1_explore returns and "self.lwt_cache[context] = plan" stores it.
ExploreReturns(t, plan) ==
  /\ v_pc[t] = "explore"
  /\ v_plan' = [v_plan EXCEPT ![t] = plan]
  /\ v_cache' = [v_cache EXCEPT ![v_ctx[t]] = plan]
  /\ v_pc' = [v_pc EXCEPT ![t] = "planned"]
  /\ UNCHANGED <<v_ctx, v_calls, v_explored, othersV>>

\* phase1_explore raises: evaluate_ranking raises and nothing is stored.
ExploreRaises(t) ==
  /\ v_pc[t] = "explore"
  /\ v_pc' = [v_pc EXCEPT ![t] = "idle"]
  /\ UNCHANGED <<v_cache, v_ctx, v_plan, v_calls, v_explored, othersV>>

\* The rest of evaluate_ranking: the default ranking for an empty plan,
\* phases 2 and 3 otherwise.
RankGoesOn(t) ==
  /\ v_pc[t] = "planned"
  /\ v_pc' = [v_pc EXCEPT ![t] = "idle"]
  /\ UNCHANGED <<v_cache, v_ctx, v_plan, v_calls, v_explored, othersV>>

NextPlan ==
  \/ \E t \in Threads : \E context \in RankContexts : RankCall(t, context)
  \/ \E t \in Threads : RankCheck(t)
  \/ \E t \in Threads : \E plan \in ExploredPlans : ExploreReturns(t, plan)
  \/ \E t \in Threads : ExploreRaises(t)
  \/ \E t \in Threads : RankGoesOn(t)

SpecPlan == InitPlan /\ [][NextPlan]_vars

\* ------------------------------------------------------------------------
\* Properties of build_execution_layers
\* ------------------------------------------------------------------------

\* The step IDs of the list are pairwise distinct.
DistinctIds(ss) == \A i, j \in DOMAIN ss : ss[i].idx = ss[j].idx => i = j

\* The non-reserved IDs the template at position p references.
Refs(ss, p) == extract_dependencies(ss[p].instr) \ input_vars

\* The layers (1-based) that hold position p.
LayersOf(p) == {k \in DOMAIN layers : \E j \in DOMAIN layers[k] : layers[k][j] = p}

\* The 0-based index of the layer of p, in a result that holds p.
LayerIndex(p) == (CHOOSE k \in DOMAIN layers : k \in LayersOf(p)) - 1

Max(S) == CHOOSE x \in S : \A y \in S : y <= x

\* The reference relation between IDs: x -> d when a step declared as x
\* references the non-reserved ID d.
RefEdges(ss) ==
  {e \in StepIds \X StepIds :
     \E p \in DOMAIN ss : ss[p].idx = e[1] /\ e[2] \in Refs(ss, p)}

\* The transitive closure of a relation on IDs.
RECURSIVE Closure(_)
Closure(R) ==
  LET R2 == R \cup {g \in StepIds \X StepIds :
                      \E e \in R, f \in R : e[2] = f[1] /\ g = <<e[1], f[2]>>}
  IN IF R2 = R THEN R ELSE Closure(R2)

\* The IDs that lie on a cycle of the reference relation.
CycleIds(ss) ==
  LET tc == Closure(RefEdges(ss))
  IN {x \in DeclaredIds(ss) : <<x, x>> \in tc}

\* The IDs referenced somewhere and declared nowhere.
UndeclaredRefs(ss) == UNION {Refs(ss, p) : p \in DOMAIN ss} \ DeclaredIds(ss)

\* The IDs of the steps that reference an undeclared ID, directly or through
\* other steps.
DependsOnUndeclared(ss) ==
  LET tc == Closure(RefEdges(ss))
      und == UndeclaredRefs(ss)
  IN {x \in DeclaredIds(ss) : \E u \in und : <<x, u>> \in tc}

\* build_execution_layers has returned or raised.
Finished == pcL \in {"returned", "raised"}

\* C1: on normal return for a step list with pairwise distinct IDs, every
\* non-reserved ID a step of layer k references is declared, and its step
\* lies in a layer with a strictly smaller index.
C1_DepsInEarlierLayers ==
  (pcL = "returned" /\ DistinctIds(steps)) =>
    \A p \in DOMAIN steps : \A d \in Refs(steps, p) :
      /\ \E q \in DOMAIN steps : steps[q].idx = d
      /\ \A q \in DOMAIN steps :
           steps[q].idx = d => (LayersOf(q) # {} /\ LayerIndex(q) < LayerIndex(p))

\* A three-step list with distinct IDs returned in three layers.
C1_Witness ==
  /\ pcL = "returned"
  /\ DistinctIds(steps)
  /\ Len(steps) = 3
  /\ Len(layers) = 3
  /\ \E p \in DOMAIN steps : Cardinality(Refs(steps, p)) = 2

\* C3 (as stated): when the reference relation has a cycle the function
\* does not return layers, and the error names every ID on the cycle.
C3_CycleRaises ==
  Finished =>
    LET cyc == CycleIds(steps)
    IN cyc # {} => (pcL = "raised" /\ cyc \subseteq Range(unresolved))

\* The same for step lists with pairwise distinct IDs.
CycleRaisesDistinct == DistinctIds(steps) => C3_CycleRaises

\* C6: on normal return the layers partition the positions of the input:
\* every position is in exactly one slot of exactly one layer, no layer is
\* empty, nothing else appears, and the empty list gives the empty result.
C6_LayersPartitionSteps ==
  pcL = "returned" =>
    /\ \A p \in DOMAIN steps :
         Cardinality({<<k, j>> \in (DOMAIN layers) \X (1..Len(steps)) :
                        j \in DOMAIN layers[k] /\ layers[k][j] = p}) = 1
    /\ \A k \in DOMAIN layers :
         layers[k] # <<>> /\ Range(layers[k]) \subseteq DOMAIN steps
    /\ (steps = <<>> => layers = <<>>)

\* A three-step list returned in two layers.
C6_Witness ==
  /\ pcL = "returned"
  /\ Len(steps) = 3
  /\ Len(layers) = 2

\* C7 (as stated): on normal return a step without non-reserved references
\* is in layer 0 and any other step is in layer 1 + max(layer of the steps it
\* references).
C7_EarliestLayer ==
  pcL = "returned" =>
    \A p \in DOMAIN steps :
      LET referenced == {r \in DOMAIN steps : steps[r].idx \in Refs(steps, p)}
      IN IF Refs(steps, p) = {}
         THEN LayerIndex(p) = 0
         ELSE /\ referenced # {}
              /\ LayerIndex(p) = 1 + Max({LayerIndex(q) : q \in referenced})

\* The same for step lists with pairwise distinct IDs.
EarliestLayerDistinct == DistinctIds(steps) => C7_EarliestLayer

\* C8 (as stated): a reference to an ID that is neither reserved nor declared
\* makes the function raise, and the error names the referencing step and
\* every step that depends on it.
C8_UndeclaredRaises ==
  (Finished /\ UndeclaredRefs(steps) # {}) =>
    (pcL = "raised" /\ DependsOnUndeclared(steps) \subseteq Range(unresolved))

\* The same for step lists with pairwise distinct IDs.
UndeclaredRaisesDistinct == DistinctIds(steps) => C8_UndeclaredRaises

\* C9 (as stated): on normal return a step whose template has references,
\* all of them to reserved names, is in layer 0.
C9_ReservedOnlyInLayerZero ==
  pcL = "returned" =>
    \A p \in DOMAIN steps :
      LET named == extract_dependencies(steps[p].instr)
      IN (named # {} /\ named \subseteq input_vars) => LayerIndex(p) = 0

\* The same for step lists with pairwise distinct IDs.
ReservedOnlyInLayerZeroDistinct == DistinctIds(steps) => C9_ReservedOnlyInLayerZero

\* Neither of the IDs x and y depends on the other, directly or through other
\* steps.
Independent(tc, x, y) == <<x, y>> \notin tc /\ <<y, x>> \notin tc

IndependentStepsInDifferentLayers ==
  /\ pcL = "returned"
  /\ DistinctIds(steps)
  /\ LET tc == Closure(RefEdges(steps))
     IN \E p, q \in DOMAIN steps :
          /\ Independent(tc, steps[p].idx, steps[q].idx)
          /\ LayersOf(p) # LayersOf(q)

\* ------------------------------------------------------------------------
\* Properties of the execution
\* ------------------------------------------------------------------------

\* The layer (1-based) of the step at position p of thread t.
ELayerOf(t, p) == CHOOSE k \in DOMAIN elayers[t] : p \in Range(elayers[t][k])

\* The step at position p of thread t has been passed to _cache_set.
Written(t, p) == \E i \in DOMAIN wlog[t] : wlog[t][i].pos = p

\* The dict that results from the _cache_set calls of a log on an empty dict.
RECURSIVE CacheFromLog(_)
CacheFromLog(log) ==
  IF log = <<>> THEN <<>>
  ELSE LET n == Len(log)
       IN Put(CacheFromLog(SubSeq(log, 1, n - 1)), log[n].key, log[n].val)

\* C2: in _execute_parallel a step is substituted or called only once every
\* step of every earlier layer has returned and been written to the cache,
\* and only a layer up to the one in progress has started.
C2_LayersRunInOrder ==
  \A t \in Threads :
    (mode[t] = "async" /\ pc[t] \in {"gather", "write", "done"}) =>
      \A p \in DOMAIN esteps[t] :
        status[t][p] # "new" =>
          /\ ELayerOf(t, p) <= cur[t]
          /\ \A q \in DOMAIN esteps[t] :
               ELayerOf(t, q) < ELayerOf(t, p) =>
                 /\ status[t][q] = "cached"
                 /\ Written(t, q)
                 /\ esteps[t][q].idx \in DOMAIN GetCache(t)

\* A step of the second layer is in its collaborator call after a first
\* layer of two steps.
C2_Witness ==
  \E t \in Threads :
    /\ mode[t] = "async"
    /\ Len(elayers[t]) = 2
    /\ Len(elayers[t][1]) = 2
    /\ \E p \in DOMAIN esteps[t] : ELayerOf(t, p) = 2 /\ status[t][p] = "awaiting"

\* C4: in _execute_parallel a collaborator failure never raises: the failed
\* step is written as the sentinel ("NO" in core.py, "0" in anot.py), every
\* step of the script is executed and cached, and final is returned.
C4_StepFailureIsolated ==
  \A t \in Threads :
    mode[t] = "async" =>
      /\ pc[t] = "raised" => (failed[t] = {} /\ build_execution_layers(esteps[t]).raised)
      /\ \A i \in DOMAIN wlog[t] :
           wlog[t][i].pos \in failed[t] =>
             wlog[t][i].val.text = (IF variant = "core" THEN "NO" ELSE "0")
      /\ (pc[t] = "done" /\ esteps[t] # <<>>) =>
           /\ \A p \in DOMAIN esteps[t] :
                /\ status[t][p] = "cached"
                /\ Written(t, p)
                /\ esteps[t][p].idx \in DOMAIN GetCache(t)
           /\ ret[t] = final[t]
           /\ ret[t] \in Replies \cup {"NO", "0"}

\* An execution of three steps in two layers has finished although a step
\* of the first layer failed.
C4_Witness ==
  \E t \in Threads :
    /\ mode[t] = "async"
    /\ pc[t] = "done"
    /\ Len(esteps[t]) = 3
    /\ Len(elayers[t]) = 2
    /\ \E p \in failed[t] : ELayerOf(t, p) = 1

\* C5: the cache an execution sees holds exactly what that execution has
\* written since its own reset (no entry of the other thread, none removed by
\* the other thread's reset), and every cached value substituted into a
\* prompt is an output of the same execution.
C5_CacheOwnedByExecution ==
  \A t \in Threads :
    mode[t] # "none" =>
      /\ GetCache(t) = CacheFromLog(wlog[t])
      /\ \A p \in DOMAIN filled[t] : \A i \in DOMAIN filled[t][p] :
           filled[t][p][i].by \in {t, "none"}

\* Both threads have written the key "a", one has substituted its own
\* entry into a prompt and the other is still running.
C5_Witness ==
  \E t \in Threads : \E u \in Threads \ {t} :
    /\ "a" \in DOMAIN GetCache(t)
    /\ "a" \in DOMAIN GetCache(u)
    /\ pc[u] \in {"gather", "write", "fill", "call"}
    /\ \E p \in DOMAIN filled[t] : \E i \in DOMAIN filled[t][p] : filled[t][p][i].by = t

\* C10 (as stated): during one execution of _execute_parallel no cache key
\* is passed to _cache_set twice, so no cached output is overwritten.
C10_KeyWrittenOnce ==
  \A t \in Threads : mode[t] = "async" =>
    \A i, j \in DOMAIN wlog[t] : wlog[t][i].key = wlog[t][j].key => i = j

\* The same for scripts whose step IDs are pairwise distinct.
KeyWrittenOnceDistinct ==
  \A t \in Threads : DistinctIds(esteps[t]) =>
    \A i, j \in DOMAIN wlog[t] : wlog[t][i].key = wlog[t][j].key => i = j

\* The index in a log of its entry x.
IndexIn(log, x) == CHOOSE i \in DOMAIN log : log[i] = x

\* C11: when _execute_parallel returns for a script with at least one step,
\* the returned text is the cache entry of the step declared last among the
\* steps of the last layer, in whatever order the calls of that layer ended.
C11_FinalIsLastDeclaredOfLastLayer ==
  \A t \in Threads :
    (mode[t] = "async" /\ pc[t] = "done" /\ esteps[t] # <<>>) =>
      LET lastLayer == elayers[t][Len(elayers[t])]
          p == Max(Range(lastLayer))
      IN /\ esteps[t][p].idx \in DOMAIN GetCache(t)
         /\ ret[t] = GetCache(t)[esteps[t][p].idx].text

\* An execution has returned whose last layer holds two steps with distinct
\* IDs and different outputs, the one declared last having ended first.
C11_Witness ==
  \E t \in Threads :
    /\ mode[t] = "async"
    /\ pc[t] = "done"
    /\ DistinctIds(esteps[t])
    /\ Len(elayers[t]) = 2
    /\ LET lastLayer == elayers[t][2]
       IN /\ Len(lastLayer) = 2
          /\ IndexIn(rlog[t], lastLayer[2]) < IndexIn(rlog[t], lastLayer[1])
          /\ output[t][lastLayer[1]].text # output[t][lastLayer[2]].text

\* phase3_execute of thread t did not raise because of a failed step: it
\* raised only without a failed collaborator call, every failed step that was
\* written got the sentinel, and on return every step is executed and cached.
StepFailureDoesNotRaise(t) ==
  /\ pc[t] = "raised" => failed[t] = {}
  /\ \A i \in DOMAIN wlog[t] :
       wlog[t][i].pos \in failed[t] => wlog[t][i].val.text = Sentinel(variant)
  /\ (pc[t] = "done" /\ esteps[t] # <<>>) =>
       \A p \in DOMAIN esteps[t] : status[t][p] = "cached" /\ Written(t, p)

\* C13 (as stated): on the layered path and on the sequential path after a
\* RuntimeError, in both copies of the engine, phase3_execute never raises
\* because a collaborator call failed; the failed step gets the sentinel and
\* the remaining steps are executed.
C13_NeverRaisesOnStepFailure ==
  \A t \in Threads : mode[t] # "none" => StepFailureDoesNotRaise(t)

\* The same except for the sequential path of methods/anot/core.py.
NeverRaisesExceptCoreSequential ==
  \A t \in Threads :
    (mode[t] = "async" \/ (mode[t] = "seq" /\ variant = "anot")) =>
      StepFailureDoesNotRaise(t)

\* A step list with distinct IDs for which build_execution_layers raises: a
\* cycle of references, or a reference to an undeclared ID.
HasUnresolvableSteps(ss) ==
  DistinctIds(ss) /\ (CycleIds(ss) # {} \/ UndeclaredRefs(ss) # {})

\* The scripts of the executions whose steps cannot all be resolved.
UnresolvableScripts == {sc \in ExecScripts : HasUnresolvableSteps(parse_script(sc))}

\* C14: the layers are computed before any step runs.  For a script whose
\* steps cannot all be resolved, _execute_parallel raises, and whenever it has
\* raised no template was substituted, no collaborator was called, nothing
\* was written to the cache and nothing was returned.
C14_RaisesBeforeAnyStep ==
  \A t \in Threads :
    mode[t] = "async" =>
      /\ script[t] \in UnresolvableScripts => pc[t] = "raised"
      /\ pc[t] = "raised" =>
           /\ wlog[t] = <<>>
           /\ rlog[t] = <<>>
           /\ GetCache(t) = <<>>
           /\ ret[t] = "unset"
           /\ \A p \in DOMAIN esteps[t] : status[t][p] = "new" /\ filled[t][p] = <<>>

\* An execution of a two-step script with a cycle has raised while the other
\* thread has completed an execution that wrote to its cache.
C14_Witness ==
  \E t \in Threads : \E u \in Threads \ {t} :
    /\ mode[t] = "async"
    /\ pc[t] = "raised"
    /\ Len(esteps[t]) = 2
    /\ script[t] \in UnresolvableScripts
    /\ pc[u] = "done"
    /\ wlog[u] # <<>>

\* C15: for a script without a valid step line _execute_parallel returns at
\* once, "" in methods/anot/core.py and "0" in methods/anot.py: no layers are
\* built, no template is substituted, no collaborator is called and the
\* cache stays empty.
C15_NoStepsReturnsFallback ==
  \A t \in Threads :
    (mode[t] = "async" /\ parse_script(script[t]) = <<>>) =>
      /\ pc[t] = "done"
      /\ ret[t] = (IF variant = "core" THEN "" ELSE "0")
      /\ elayers[t] = <<>>
      /\ wlog[t] = <<>>
      /\ rlog[t] = <<>>
      /\ GetCache(t) = <<>>

\* The layered path has returned for a script of one line that declares no
\* step, while the other thread holds cache entries of its own.
C15_Witness ==
  \E t \in Threads : \E u \in Threads \ {t} :
    /\ mode[t] = "async"
    /\ script[t] # <<>>
    /\ parse_script(script[t]) = <<>>
    /\ pc[t] = "done"
    /\ GetCache(u) # <<>>

\* ------------------------------------------------------------------------
\* Properties of the rate limiter
\* ------------------------------------------------------------------------

\* C12 (as stated): the collaborator calls in flight inside call_llm_async,
\* over all event loops, never exceed the configured max_concurrent, also
\* when the semaphore is created lazily by concurrent first callers or
\* init_rate_limiter is called while calls are in flight.
C12_InFlightWithinLimit == Cardinality(InFlight) <= max_concurrent

\* The same while init_rate_limiter has not been called again.
InFlightWithinLimitNoReinit == inits = 0 => C12_InFlightWithinLimit

\* The same for callers of one event loop, init_rate_limiter not called again.
InFlightWithinLimitOneLoop ==
  (inits = 0 /\ \A c, d \in ClientCallers : cloop[c] = cloop[d]) => C12_InFlightWithinLimit

\* ------------------------------------------------------------------------
\* Properties of the final parse of evaluate_ranking
\* ------------------------------------------------------------------------

\* The integer tokens of a text: the runs of digits with no word character
\* next to them, as the pairs of their first and last position.
TokenSpans(text) ==
  {sp \in (DOMAIN text) \X (DOMAIN text) :
     /\ sp[1] <= sp[2]
     /\ \A i \in sp[1]..sp[2] : text[i] \in Digits
     /\ (sp[1] = 1 \/ text[sp[1] - 1] \notin WordChars)
     /\ (sp[2] = Len(text) \/ text[sp[2] + 1] \notin WordChars)}

\* The values of the integer tokens, in order of appearance.
IntegerTokens(text) ==
  LET starts == SelectPos({sp[1] : sp \in TokenSpans(text)})
  IN [j \in DOMAIN starts |->
        LET sp == CHOOSE x \in TokenSpans(text) : x[1] = starts[j]
        IN IntOf(SubSeq(text, sp[1], sp[2]))]

\* parse_indices(text, max_index, k) of utils/parsing.py, as section 4.5
\* describes ranked-list parsing: the tokens within [1, maxIndex], repeats
\* after the first occurrence dropped, cut to the first k; the identity
\* ranking when none is left.
parse_indices(text, maxIndex, k) ==
  LET toks == IntegerTokens(text)
      kept == SelectPos({i \in DOMAIN toks :
                           /\ toks[i] \in 1..maxIndex
                           /\ \A j \in 1..(i - 1) : toks[j] # toks[i]})
      valid == [j \in DOMAIN kept |-> toks[kept[j]]]
  IN IF valid = <<>>
     THEN [i \in 1..(IF k <= maxIndex THEN k ELSE maxIndex) |-> i]
     ELSE [j \in 1..(IF k <= Len(valid) THEN k ELSE Len(valid)) |-> valid[j]]

\* C16: the final parse of evaluate_ranking returns the first k of the
\* integer tokens of the text that lie in [1, maxIndex], in order of
\* appearance and without repeats, or the identity ranking 1..min(k, maxIndex)
\* when there is none; the result has no duplicate, no index out of range
\* and at most k entries.
C16_RankedListParse ==
  r_pc = "done" =>
    /\ r_top_k = parse_indices(r_output, r_n_items, r_k)
    /\ \A i, j \in DOMAIN r_top_k : r_top_k[i] = r_top_k[j] => i = j
    /\ \A i \in DOMAIN r_top_k : r_top_k[i] \in 1..r_n_items
    /\ Len(r_top_k) <= r_k

\* The text "2 2 1" has been parsed with maxIndex 2 and k 1: a repeat was
\* dropped and the two indices left were cut to one.
C16_Witness ==
  /\ r_pc = "done"
  /\ r_output = <<"2", " ", "2", " ", "1">>
  /\ r_n_items = 2
  /\ r_k = 1
  /\ r_indices = <<2, 1>>
  /\ r_top_k = <<2>>

\* The text "12 x1" has been parsed with maxIndex 2 and k 2: 12 is out of
\* range, x1 is no integer token, and the identity ranking is returned.
RankFallbackReached ==
  /\ r_pc = "done"
  /\ r_output = <<"1", "2", " ", "x", "1">>
  /\ r_n_items = 2
  /\ r_k = 2
  /\ r_top_k = <<1, 2>>

\* ------------------------------------------------------------------------
\* Properties of parse_final_answer
\* ------------------------------------------------------------------------

\* The positions at which a delimited -1, 0 or 1 starts: after the start of
\* the text, a colon or whitespace, and before whitespace, a period or the end.
DelimitedTokens(str) ==
  {j \in DOMAIN str :
     /\ (j = 1 \/ str[j - 1] \in {":", " "})
     /\ \E lit \in {MinusOne, Zero, One} :
          /\ j + Len(lit) - 1 <= Len(str)
          /\ SubSeq(str, j, j + Len(lit) - 1) = lit
          /\ (j + Len(lit) - 1 = Len(str) \/ str[j + Len(lit)] \in {" ", "."})}

\* The value of the delimited token that starts at position j.
TokenValue(str, j) == IF str[j] = "-" THEN -1 ELSE IF str[j] = "0" THEN 0 ELSE 1

\* The answer by the precedence of the claim.
AnswerByPrecedence(text) ==
  LET str == strip(text)
      low == lower(str)
      toks == DelimitedTokens(str)
  IN IF str = MinusOne THEN -1
     ELSE IF str = Zero THEN 0
     ELSE IF str = One THEN 1
     ELSE IF toks # {} THEN TokenValue(str, CHOOSE j \in toks : \A x \in toks : j <= x)
     ELSE IF Contains(low, NotRecommend) THEN -1
     ELSE IF Contains(low, Recommend) /\ ~Contains(low, Not) THEN 1
     ELSE 0

\* C17: parse_final_answer returns for every text a value in {-1, 0, 1}: the
\* stripped text's own value when it is exactly -1, 0 or 1, else the first
\* delimited -1/0/1 token, else -1 when the lower-cased text contains
\* "not recommend", 1 when it contains "recommend" and no "not", else 0.
C17_FinalAnswerPrecedence ==
  /\ fa_pc = "start" => (ENABLED FinalExact \/ ENABLED FinalMatch \/ ENABLED FinalKeywords)
  /\ fa_pc = "done" =>
       /\ fa_result \in {-1, 0, 1}
       /\ fa_result = AnswerByPrecedence(fa_output)

\* "1 not recommend" has been parsed to 1: the delimited token goes before
\* the keyword rule, which would give -1.
C17_Witness ==
  /\ fa_pc = "done"
  /\ fa_output = <<"1", " ">> \o NotRecommend
  /\ fa_result = 1

\* "Not recommend" has been parsed to -1.
FinalKeywordNegativeReached ==
  /\ fa_pc = "done"
  /\ fa_output = <<"N", "o", "t", " ">> \o Recommend
  /\ fa_result = -1

\* "recommend not" has been parsed to 0.
FinalKeywordNeutralReached ==
  /\ fa_pc = "done"
  /\ fa_output = Recommend \o <<" ">> \o Not
  /\ fa_result = 0

\* ------------------------------------------------------------------------
\* Properties of substitute_variables (knot.py)
\* ------------------------------------------------------------------------

\* The name is 'input', 'context' or a key of the cache.
LookupSucceeds(var) == var \in {"input", "context"} \cup DOMAIN SubstCache

\* C18: substitute_variables returns without raising and leaves no
\* reference marker in its output; a reference whose name is a step ID
\* (dotted IDs included) and whose lookup fails is replaced by the empty
\* string.
C18_NoRaiseNoMarker ==
  s_pc = "done" =>
    /\ s_out # "RAISES"
    /\ s_out # Marker
    /\ ~LookupSucceeds(s_var) => s_out = ""

\* The same for names without a dot, when no accessors follow the name of a
\* cached literal that holds a set.
NoRaiseNoMarkerWordNames ==
  (s_pc = "done" /\ PatternMatches(s_var) /\ ~(s_var = "u" /\ s_chain # <<>>)) =>
    /\ s_out # "RAISES"
    /\ s_out # Marker
    /\ ~LookupSucceeds(s_var) => s_out = ""

\* The reference {(2.rev.0)}, whose ID is cached, stands unchanged in the
\* output.
DottedMarkerLeft ==
  /\ s_pc = "done"
  /\ s_var = "2.rev.0"
  /\ s_out = Marker

\* json.dumps has raised on {(u)}[0].
DumpsRaised ==
  /\ s_pc = "done"
  /\ s_var = "u"
  /\ s_chain = <<"0">>
  /\ s_out = "RAISES"

\* C19: a reference whose accessor chain hits a missing map key or an
\* out-of-range list index, at any position and for any kind of key, is
\* replaced by the empty string.
C19_MissingKeyGivesEmpty ==
  (s_pc = "done" /\ s_missed) => s_out = ""

\* The same when the miss is not a numeric key looked up by the last
\* accessor.
MissingKeyGivesEmptyUnlessLastNumeric ==
  (s_pc = "done" /\ s_missed /\ s_val # VNone) => s_out = ""

\* {(context)}[9] on data without the key 9 has given the text None.
MissingNumericKeyLastGivesNone ==
  /\ s_pc = "done"
  /\ s_var = "context"
  /\ s_chain = <<"9">>
  /\ s_missed
  /\ s_out = "None"

\* {(context)}[9][k] has given the empty string.
MissingNumericKeyFirstGivesEmpty ==
  /\ s_pc = "done"
  /\ s_var = "context"
  /\ s_chain = <<"9", "k">>
  /\ s_missed
  /\ s_out = ""

\* The value the accessors name in val, each one finding its key (as a
\* string, else as an integer) or its index; ok is FALSE when one does not.
RECURSIVE Resolve(_, _)
Resolve(val, chain) ==
  IF chain = <<>> THEN [ok |-> TRUE, val |-> val]
  ELSE LET acc == Head(chain)
       IN IF val.t = "map" /\ StrKey(acc) \in DOMAIN val.kv
          THEN Resolve(val.kv[StrKey(acc)], Tail(chain))
          ELSE IF val.t = "map" /\ IsDigitAcc(acc) /\ IntKey(acc) \in DOMAIN val.kv
          THEN Resolve(val.kv[IntKey(acc)], Tail(chain))
          ELSE IF val.t = "list" /\ IsDigitAcc(acc) /\ IntOfAcc(acc) < Len(val.items)
          THEN Resolve(val.items[IntOfAcc(acc) + 1], Tail(chain))
          ELSE [ok |-> FALSE, val |-> VNone]

\* The accessors of the reference all succeed and name a None value.
ResolvesToNone ==
  /\ PatternMatches(s_var)
  /\ s_chain # <<>>
  /\ LET r == Resolve(ParseLiteral(BaseValue(s_var, s_context), s_chain), s_chain)
     IN r.ok /\ r.val = VNone

\* C20: a reference whose accessors all succeed and resolve to a None value
\* is replaced by the text None, not by the empty string.
C20_NoneLeafRendersNone ==
  (s_pc = "done" /\ ResolvesToNone) => s_out = "None"

\* {(context)}[k][0][1], a None element of a list inside two maps, has
\* given the text None.
C20_Witness ==
  /\ s_pc = "done"
  /\ s_var = "context"
  /\ s_chain = <<"k", "0", "1">>
  /\ ResolvesToNone
  /\ s_out = "None"

\* C21: a numeric accessor applied to a map yields the stored value whether
\* the map holds it under the string key or under the integer key.
C21_NumericKeyEitherRepresentation ==
  [][(s_pc = "access" /\ s_accs # <<>> /\ s_val.t = "map" /\ IsDigitAcc(Head(s_accs))) =>
       LET acc == Head(s_accs)
       IN /\ StrKey(acc) \in DOMAIN s_val.kv => s_val' = s_val.kv[StrKey(acc)]
          /\ (StrKey(acc) \notin DOMAIN s_val.kv /\ IntKey(acc) \in DOMAIN s_val.kv)
               => s_val' = s_val.kv[IntKey(acc)]]_vars

\* {(context)}[0][k] has found the item stored under the integer key 0 and
\* given its text.
C21_Witness ==
  /\ s_pc = "done"
  /\ s_var = "context"
  /\ s_chain = <<"0", "k">>
  /\ s_out = "txt"

\* {(context)}[k][0][0] has found the list stored under the string key "0".
StringNumericKeyReached ==
  /\ s_pc = "done"
  /\ s_var = "context"
  /\ s_chain = <<"k", "0", "0">>
  /\ s_out = "txt"

\* ------------------------------------------------------------------------
\* Properties of parse_script (knot.py)
\* ------------------------------------------------------------------------

\* A well-formed step line: (ID)=LLM("...") or (ID)=LLM('...') from the start
\* of the line, with or without spaces around "=".
WellFormed(l) ==
  /\ l.kind = "decl"
  /\ l.lead = <<>>
  /\ l.q1 = l.q2

\* The pairs a line stands for.
DeclaredPairs(l) ==
  IF WellFormed(l) THEN <<[idx |-> l.id, instr |-> l.instr]>> ELSE <<>>

\* C22: each well-formed step line adds exactly its (id, instruction) pair at
\* the end of the result, the instruction unchanged, and every other line
\* adds nothing.
C22_OnePairPerWellFormedLine ==
  [][p_n' = p_n + 1 => p_steps' = p_steps \o DeclaredPairs(p_line')]_vars

\* The lines for which parse_script of knot.py does so: the well-formed lines
\* with an ID of digits, no space after "=", and no quote followed by ")"
\* inside the instruction; and the lines without a declaration.
ParsedAsDeclared(l) ==
  \/ l.kind = "other"
  \/ /\ WellFormed(l)
     /\ \A i \in DOMAIN l.id : l.id[i] \in DigitTokens
     /\ ~l.sp2
     /\ ~Contains(l.instr, <<"'", ")">>)

OnePairPerDigitLine ==
  [][(p_n' = p_n + 1 /\ ParsedAsDeclared(p_line')) =>
       p_steps' = p_steps \o DeclaredPairs(p_line')]_vars

\* The line (c1)=LLM("x") has added nothing.
LetterIdDropped ==
  /\ p_n = 1
  /\ p_line = [kind |-> "decl", lead |-> <<>>, id |-> <<"c", "1">>, sp1 |-> FALSE,
               sp2 |-> FALSE, q1 |-> "\"", q2 |-> "\"", instr |-> <<"x">>]
  /\ p_steps = <<>>

\* The line (1)= LLM("x") has added nothing.
SpaceAfterEqualsDropped ==
  /\ p_n = 1
  /\ p_line = [kind |-> "decl", lead |-> <<>>, id |-> <<"1">>, sp1 |-> FALSE,
               sp2 |-> TRUE, q1 |-> "\"", q2 |-> "\"", instr |-> <<"x">>]
  /\ p_steps = <<>>

\* The line (1)=LLM("x')x") has added the pair (1, x).
InstructionCutShort ==
  /\ p_n = 1
  /\ p_line = [kind |-> "decl", lead |-> <<>>, id |-> <<"1">>, sp1 |-> FALSE,
               sp2 |-> FALSE, q1 |-> "\"", q2 |-> "\"", instr |-> <<"x", "'", ")", "x">>]
  /\ p_steps = <<[idx |-> <<"1">>, instr |-> <<"x">>]>>

\* Two lines (1)=LLM('x x') and (1) =LLM("x") have added their pairs in order.
TwoDigitLinesParsed ==
  /\ p_pc = "done"
  /\ p_n = 2
  /\ p_steps = <<[idx |-> <<"1">>, instr |-> <<"x", " ", "x">>],
                 [idx |-> <<"1">>, instr |-> <<"x">>]>>

\* ------------------------------------------------------------------------
\* Properties of the prompts of _execute_step_async
\* ------------------------------------------------------------------------

\* The positions of the steps with ID d in the layers before the layer of
\* the step at position p.
EarlierSteps(t, p, d) ==
  {q \in DOMAIN esteps[t] : esteps[t][q].idx = d /\ ELayerOf(t, q) < ELayerOf(t, p)}

InSolveLoop(r) == m_pc[r] \in {"fill", "llm", "done"}

\* C25: the cache a call of method uses holds exactly what that call has
\* written since its own reset, and every cached value substituted into one
\* of its prompts is an output of the same call.
C25_CacheNotSharedAcrossRequests ==
  \A r \in Requests :
    InSolveLoop(r) =>
      /\ m_cache[m_self[r]] = CacheFromLog(m_wlog[r])
      /\ \A i \in DOMAIN m_filled[r] : m_filled[r][i].by \in {r, "none"}

\* The same while no other request has entered method.
CacheOwnedWhenAlone ==
  \A r \in Requests :
    (InSolveLoop(r) /\ \A u \in Requests \ {r} : m_pc[u] = "idle") =>
      /\ m_cache[m_self[r]] = CacheFromLog(m_wlog[r])
      /\ \A i \in DOMAIN m_filled[r] : m_filled[r][i].by \in {r, "none"}

\* The two requests run on the same instance, and the prompt of step 1 of
\* one holds the output of step 0 of the other.
ForeignOutputInPrompt ==
  \E r \in Requests : \E u \in Requests \ {r} :
    /\ m_self[r] = m_self[u]
    /\ m_pc[r] = "llm"
    /\ m_cur[r] = 2
    /\ m_filled[r] = <<Piece("Check", "none"), Piece("yes", u)>>

\* The reset of one request has removed the output of step 0 of the other,
\* whose step 1 is then called with an empty reference.
OutputLostToForeignReset ==
  \E r \in Requests :
    /\ m_pc[r] = "llm"
    /\ m_cur[r] = 2
    /\ m_wlog[r] # <<>>
    /\ m_filled[r] = <<Piece("Check", "none"), Piece("", "none")>>

\* ------------------------------------------------------------------------
\* Properties of the sequential loop of phase3_execute
\* ------------------------------------------------------------------------

\* The scripts whose reference relation has no cycle and names declared
\* steps only.
AcyclicScripts ==
  {sc \in ExecScripts :
     /\ CycleIds(parse_script(sc)) = {}
     /\ UndeclaredRefs(parse_script(sc)) = {}}

\* The scripts in which every step is declared after the steps it refers to.
DeclaredInDependencyOrder ==
  {sc \in ExecScripts :
     LET ss == parse_script(sc)
     IN \A p \in DOMAIN ss : \A d \in Refs(ss, p) :
          \E q \in 1..(p - 1) : ss[q].idx = d}

\* Every step the step at position p of thread t refers to has been executed
\* and its output is in the cache.
ReferencedStepsCached(t, p) ==
  \A d \in Refs(esteps[t], p) :
    /\ d \in DOMAIN GetCache(t)
    /\ \E q \in DOMAIN esteps[t] : esteps[t][q].idx = d /\ status[t][q] = "cached"

\* C26: in the sequential loop, when the template of a step of an acyclic
\* script has just been substituted, every step it refers to has been
\* executed and its output is in the cache.
C26_SequentialRefsAlreadyCached ==
  \A t \in Threads :
    (mode[t] = "seq" /\ pc[t] = "call" /\ script[t] \in AcyclicScripts) =>
      ReferencedStepsCached(t, cur[t])

\* The same for the scripts declared in dependency order.
SequentialRefsCachedInDeclarationOrder ==
  \A t \in Threads :
    (mode[t] = "seq" /\ pc[t] = "call" /\ script[t] \in DeclaredInDependencyOrder) =>
      ReferencedStepsCached(t, cur[t])

\* Step b of the script "b refers to a; a" is in its call, with the empty
\* string in place of its reference to a, before a has run.
ReferenceFilledBeforeItsStepRan ==
  \E t \in Threads :
    /\ mode[t] = "seq"
    /\ script[t] = ChainScript
    /\ pc[t] = "call"
    /\ cur[t] = 1
    /\ status[t][2] = "new"
    /\ filled[t][1] = <<Piece("Check", "none"), Piece("", "none")>>

\* Step c of the fan-in script is in its sequential call with a and b cached.
SequentialFanInReached ==
  \E t \in Threads :
    /\ mode[t] = "seq"
    /\ script[t] = FanInScript
    /\ pc[t] = "call"
    /\ cur[t] = 3
    /\ ReferencedStepsCached(t, 3)

\* ------------------------------------------------------------------------
\* Properties of evaluate_ranking (run.py)
\* ------------------------------------------------------------------------

\* The positions in results of the records of request i.
RecordsOf(i) == {j \in DOMAIN b_results : b_results[j].request_id = i}

\* C27: evaluate_ranking returns exactly one record for every request with
\* ground truth and none for the others, in both modes; the record of a
\* request whose call raised has empty pred_indices, and the record of every
\* other request has the ranking parsed from its own response.
C27_OneRecordPerRequest ==
  b_pc = "done" =>
    /\ \A i \in DOMAIN b_requests :
         IF b_requests[i]
         THEN /\ Cardinality(RecordsOf(i)) = 1
              /\ \A j \in RecordsOf(i) :
                   b_results[j].pred_indices =
                     (IF b_outcome[i].raised THEN <<>> ELSE b_outcome[i].pred)
         ELSE RecordsOf(i) = {}
    /\ Len(b_results) = Cardinality({i \in DOMAIN b_requests : b_requests[i]})

\* A parallel batch of two requests with ground truth has returned: the call
\* of the first raised, the second finished first and has its ranking.
C27_Witness ==
  /\ b_pc = "done"
  /\ b_parallel
  /\ b_requests = <<TRUE, TRUE>>
  /\ b_outcome[1].raised
  /\ b_results = << [none |-> FALSE, request_id |-> 2, pred_indices |-> <<2, 1>>],
                    [none |-> FALSE, request_id |-> 1, pred_indices |-> <<>>] >>

\* A sequential batch has returned one record, for the second request, whose
\* call raised; the first request has no ground truth.
SequentialBatchReturned ==
  /\ b_pc = "done"
  /\ ~b_parallel
  /\ b_requests = <<FALSE, TRUE>>
  /\ b_outcome[2].raised
  /\ b_results = << [none |-> FALSE, request_id |-> 2, pred_indices |-> <<>>] >>

\* ------------------------------------------------------------------------
\* Properties of re.sub in substitute_variables (knot.py)
\* ------------------------------------------------------------------------

\* The value a reference stands for, as it is stored.
StoredValue(name) ==
  IF name = "input" THEN ScanQuery
  ELSE IF name = "context" THEN ScanContext
  ELSE IF name \in DOMAIN ScanCache THEN ScanCache[name]
  ELSE <<>>

\* The template with each of its references replaced by its stored value.
ReplacedOnce(template) ==
  Flatten([i \in DOMAIN template |->
             IF template[i].kind = "ref" THEN StoredValue(template[i].name)
             ELSE <<template[i]>>])

\* The references of a template.
RefPositions(template) == {i \in DOMAIN template : template[i].kind = "ref"}

\* C28: the result is the template with each reference replaced by its own
\* stored value, one lookup per reference of the template; reference syntax
\* inside an inserted value stays in the result as it is.
C28_SinglePass ==
  t_pc = "done" =>
    /\ t_out = ReplacedOnce(t_template)
    /\ t_lookups = Cardinality(RefPositions(t_template))

\* The template "{(a)} {(input)} {(b)}" has given the output of a with its
\* reference to b, the query with its reference to a, and the output of b,
\* after three lookups.
C28_Witness ==
  /\ t_pc = "done"
  /\ t_template = <<Ref("a"), Ref("input"), Ref("b")>>
  /\ t_lookups = 3
  /\ t_out = <<Txt, Ref("b"), Ref("a"), Txt, [kind |-> "txt", name |-> "yes"]>>

\* ------------------------------------------------------------------------
\* Properties of _call_openai_sync and _call_openai_async
\* ------------------------------------------------------------------------

\* max(1, max_retries)
AllowedAttempts == IF a_max_retries > 1 THEN a_max_retries ELSE 1

\* C29: a call makes at most max(1, max_retries) attempts; every attempt but
\* the last ended in a retryable error; the call has returned exactly when
\* its last attempt succeeded, goes on only after a retryable error before
\* the last allowed attempt, and has raised when its last attempt ended in an
\* error that is not retryable or was the last allowed attempt.
C29_BoundedRetries ==
  /\ Len(a_log) <= AllowedAttempts
  /\ \A i \in 1..(Len(a_log) - 1) : ~a_log[i].ok /\ should_retry_openai_exc(a_log[i])
  /\ a_pc = "returned" <=> (a_log # <<>> /\ a_log[Len(a_log)].ok)
  /\ (a_pc = "try" /\ a_log # <<>>) =>
       /\ ~a_log[Len(a_log)].ok
       /\ should_retry_openai_exc(a_log[Len(a_log)])
       /\ Len(a_log) < AllowedAttempts
  /\ a_pc = "raised" =>
       /\ a_log # <<>>
       /\ ~a_log[Len(a_log)].ok
       /\ (~should_retry_openai_exc(a_log[Len(a_log)]) \/ Len(a_log) = AllowedAttempts)

\* With max_retries = 3 a call has returned at its third attempt, after a
\* rate limit error and a 503.
C29_Witness ==
  /\ a_pc = "returned"
  /\ a_max_retries = 3
  /\ a_log = <<Failure("RateLimitError", 429), Failure("APIStatusError", 503), Success>>

\* With max_retries = 3 a call has raised a retryable error at its third
\* attempt.
RetriesExhausted ==
  /\ a_pc = "raised"
  /\ a_max_retries = 3
  /\ Len(a_log) = 3
  /\ should_retry_openai_exc(a_log[3])

\* With max_retries = 0 a call has raised a retryable error at its only
\* attempt.
SingleAttemptWithoutRetries ==
  /\ a_pc = "raised"
  /\ a_max_retries = 0
  /\ a_log = <<Failure("APIConnectionError", 0)>>

\* ------------------------------------------------------------------------
\* Properties of _get_openai_client and _get_async_openai_client
\* ------------------------------------------------------------------------

\* C30: however the threads' calls interleave, at most one client object is
\* ever constructed, the global holds it from then on, and every call that
\* has returned, the first ones and the later ones, returned that one object.
C30_OneClientForAllCallers ==
  /\ c_built <= 1
  /\ c_client = (IF c_built = 0 THEN NoClient ELSE ClientObject(1))
  /\ \A t \in ClientCallers : c_got[t] \subseteq {ClientObject(1)}
  /\ (\E t \in ClientCallers : c_got[t] # {}) => c_built = 1

\* Every thread has made its first call while the client was missing, two of
\* them waited for the lock while the third constructed it, and every thread
\* has returned from all its calls with the one object.
C30_Witness ==
  /\ c_built = 1
  /\ \A t \in ClientCallers :
       c_pc[t] = "idle" /\ c_calls[t] = MaxCalls /\ c_got[t] = {ClientObject(1)}

\* Two threads are waiting for the lock while a third constructs the client.
TwoCallersWaitForLock ==
  \E t \in ClientCallers :
    /\ c_pc[t] = "build"
    /\ \A u \in ClientCallers \ {t} : c_pc[u] = "lock"

\* A thread passes the check before the lock while the constructing thread
\* still holds the lock.
ReturnedWhileLockHeld ==
  \E t, u \in ClientCallers :
    /\ c_pc[t] = "return"
    /\ c_lock = t
    /\ c_got[u] = {ClientObject(1)}

\* ------------------------------------------------------------------------
\* Properties of run_hierarchical_phase2 and ReActAgent
\* ------------------------------------------------------------------------

\* The tasks of item agents.
ItemTasks == {t \in DOMAIN h_tasks : h_tasks[t].depth = 1}

\* C31: every item agent was created for an item whose check_hard had been
\* evaluated and had passed.
C31_SpawnOnlyAfterHardPass ==
  \A t \in ItemTasks : h_tasks[t].checked = "pass"

\* An item agent exists for an item that was never checked.
ItemAgentWithoutCheck ==
  \E t \in ItemTasks : h_tasks[t].checked = "none"

\* An item agent exists for an item whose check_hard had failed.
ItemAgentAfterFailedCheck ==
  \E t \in ItemTasks : h_tasks[t].checked = "fail"

\* The tasks created by task p that p has not gathered yet.
Pending(p) == h_tasks[p].subs

\* C32: every agent has a depth below MAX_DEPTH, one more than its parent's,
\* and its parent has depth 0 or 1; a review agent has created no task and
\* every spawn of its last response was answered "ERROR max depth"; and no
\* agent holds two pending tasks for one sub-agent id: a task of its that is
\* no longer pending has been gathered.
C32_NoAgentBelowReviewDepth ==
  /\ \A t \in DOMAIN h_tasks :
       /\ h_tasks[t].depth < MAX_DEPTH
       /\ t > 1 => /\ h_tasks[t].parent \in 1..(t - 1)
                   /\ h_tasks[h_tasks[t].parent].depth \in {0, 1}
                   /\ h_tasks[t].depth = h_tasks[h_tasks[t].parent].depth + 1
       /\ h_tasks[t].depth = 2 =>
            /\ Pending(t) = {}
            /\ \A i \in DOMAIN h_tasks[t].obs : h_tasks[t].obs[i] = "ERROR max depth"
  /\ \A p \in DOMAIN h_tasks :
       /\ \A x, y \in Pending(p) : x[1] = y[1] => x = y
       /\ \A n \in DOMAIN h_tasks :
            (h_tasks[n].parent = p /\ <<h_tasks[n].id, n>> \notin Pending(p))
              => h_tasks[n].pc \in {"finished", "error"}

\* The main agent's response "spawn(1) spawn(1)" was answered "started" and
\* "already running", and a review agent's "spawn(0)" was answered
\* "ERROR max depth".
C32_Witness ==
  /\ h_tasks[1].obs = <<"started", "already running">>
  /\ \E t \in DOMAIN h_tasks :
       /\ h_tasks[t].depth = 2
       /\ h_tasks[t].obs = <<"ERROR max depth">>

\* C38: when run_hierarchical_phase2 has returned, every task of the
\* hierarchy is done and the returned list holds every step emitted.
C38_AllSubAgentsDoneAtReturn ==
  h_returned =>
    /\ \A t \in DOMAIN h_tasks : h_tasks[t].pc \in {"finished", "error"}
    /\ h_result = h_steps

\* The run has returned while an item agent is still at a collaborator call.
ReturnedWithAgentRunning ==
  /\ h_returned
  /\ \E t \in DOMAIN h_tasks : h_tasks[t].depth = 1 /\ h_tasks[t].pc = "llm"

\* A sub-agent has emitted a step after the run returned: the returned list
\* lacks it.
StepEmittedAfterReturn ==
  /\ h_returned
  /\ \E i \in DOMAIN h_steps : h_steps[i].by > 1 /\ i > Len(h_result)

\* When the run has returned and the main agent holds no pending task (it
\* gathered them in wait_all() or done()), the item agents are done.
MainTasksDoneAfterDone ==
  (h_returned /\ h_tasks[1].subs = {}) =>
    \A t \in DOMAIN h_tasks : h_tasks[t].parent = 1 => h_tasks[t].pc \in {"finished", "error"}

\* An item agent has returned by skip("...") while the review agent it
\* spawned is still running.
ItemSkippedWithReviewRunning ==
  \E t \in DOMAIN h_tasks :
    /\ h_tasks[t].depth = 1
    /\ h_tasks[t].skipped
    /\ \E p \in h_tasks[t].subs : h_tasks[p[2]].pc = "llm"

\* ------------------------------------------------------------------------
\* Properties of tool_add_step and tool_insert_step
\* ------------------------------------------------------------------------

\* The ID a line of the list declares.
DeclaredId(step) == step[2]

DistinctDeclaredIds(lwt_steps) ==
  \A i, j \in DOMAIN lwt_steps :
    DeclaredId(lwt_steps[i]) = DeclaredId(lwt_steps[j]) => i = j

FinalIsLast(lwt_steps) ==
  \A i \in DOMAIN lwt_steps : DeclaredId(lwt_steps[i]) = "final" => i = Len(lwt_steps)

\* C33: after every call the step IDs of the list are pairwise distinct, a
\* call that answered with the error message left the list unchanged, and a
\* step with the ID final is the last element.
C33_DistinctIdsFinalLast ==
  [][ /\ DistinctDeclaredIds(k_steps')
      /\ (k_msg' = "exists" => k_steps' = k_steps)
      /\ FinalIsLast(k_steps') ]_vars

\* After every call the IDs are pairwise distinct and a call that answered
\* with the error message left the list unchanged.
DistinctIdsAfterEveryCall ==
  [][ /\ DistinctDeclaredIds(k_steps')
      /\ (k_msg' = "exists" => k_steps' = k_steps) ]_vars

\* While no other line holds the text "(final)=", the step final is last.
FinalLastWhenOnlyFinalHoldsItsText ==
  (\A i \in DOMAIN k_steps : HoldsFinalText(k_steps[i]) => HoldsFinalId(k_steps[i]))
    => FinalIsLast(k_steps)

\* tool_add_step("a", "see (final)=") and then tool_insert_step("final", "x")
\* have left the step final first and the step a last.
FinalInsertedBeforeOtherStep ==
  /\ Len(k_steps) = 2
  /\ DeclaredId(k_steps[1]) = "final"
  /\ DeclaredId(k_steps[2]) = "a"

\* A call with an ID already in the list has answered with the error message.
DuplicateIdRejected ==
  /\ k_msg = "exists"
  /\ Len(k_steps) = 2

\* ------------------------------------------------------------------------
\* Properties of parse_score and the ranking of evaluate_ranking
\* ------------------------------------------------------------------------

\* min(k, n)
MinKN == IF q_k < q_n THEN q_k ELSE q_n

\* The returned ranking: min(k, n) pairwise distinct indices of 1..n, in
\* descending score and ascending index among equal scores, none of the
\* items left out ranking before the last one returned; every score in
\* 0..10; an item whose step did not run has score 0.
RankingAsClaimed ==
  /\ Len(q_top) = MinKN
  /\ \A p \in DOMAIN q_top : q_top[p] \in 1..q_n
  /\ \A p, r \in DOMAIN q_top : q_top[p] = q_top[r] => p = r
  /\ \A p, r \in DOMAIN q_top :
       p < r => \/ ItemScore(q_cache, q_top[p] - 1) > ItemScore(q_cache, q_top[r] - 1)
                \/ /\ ItemScore(q_cache, q_top[p] - 1) = ItemScore(q_cache, q_top[r] - 1)
                   /\ q_top[p] < q_top[r]
  /\ \A i \in 0..(q_n - 1) :
       (\A p \in DOMAIN q_top : q_top[p] # i + 1) =>
         \A p \in DOMAIN q_top :
           \/ ItemScore(q_cache, q_top[p] - 1) > ItemScore(q_cache, i)
           \/ /\ ItemScore(q_cache, q_top[p] - 1) = ItemScore(q_cache, i)
              /\ q_top[p] < i + 1
  /\ \A i \in 0..(q_n - 1) : ItemScore(q_cache, i) \in 0..10
  /\ \A i \in 0..(q_n - 1) : i \notin q_run => ItemScore(q_cache, i) = 0

\* C34: the call returns a ranking, and the ranking is as described; a step
\* that failed left the score 0.
C34_TopKByParsedScore ==
  /\ q_pc # "raised"
  /\ q_pc = "returned" => RankingAsClaimed

\* When the call returns, the ranking is as described.
RankingWhenReturned == q_pc = "returned" => RankingAsClaimed

\* The call raises only when a cached output passes str.isdigit() and is
\* not an ASCII number.
RaisesOnlyOnNonAsciiDigits ==
  q_pc = "raised" =>
    \E i \in DOMAIN q_cache : IsDigitText(strip(q_cache[i])) /\ IntRaises(strip(q_cache[i]))

\* The output of item 1's step was the superscript two and the call raised.
RankingRaisedOnSuperscript ==
  /\ q_pc = "raised"
  /\ 0 \in DOMAIN q_cache
  /\ q_cache[0] = <<SuperscriptTwo>>

\* Two items with the scores 7 and 10 (clamped from 15) and k = 3: the
\* ranking returned is 2, 1.
TwoItemsRanked ==
  /\ q_pc = "returned"
  /\ q_n = 2 /\ q_k = 3
  /\ 0 \in DOMAIN q_cache /\ q_cache[0] = <<"x", " ", "7">>
  /\ 1 \in DOMAIN q_cache /\ q_cache[1] = <<"Score", ":", " ", "15">>
  /\ q_top = <<2, 1>>

\* ------------------------------------------------------------------------
\* Completion order and the result of _execute_parallel
\* ------------------------------------------------------------------------

\* The positions of the first n layers, in the order the write loop visits
\* them.
RECURSIVE LayersUpTo(_, _)
LayersUpTo(ls, n) == IF n = 0 THEN <<>> ELSE LayersUpTo(ls, n - 1) \o ls[n]

\* The cache after the outputs of the positions of order were written in
\* that order: each ID holds the output of its last position.
CacheAfter(t, order) ==
  [k \in {esteps[t][order[i]].idx : i \in DOMAIN order} |->
     output[t][order[CHOOSE i \in DOMAIN order :
                        /\ esteps[t][order[i]].idx = k
                        /\ \A j \in DOMAIN order : esteps[t][order[j]].idx = k => j <= i]]]

\* The index of the layer that holds position p.
LayerOf(t, p) == CHOOSE n \in DOMAIN elayers[t] : p \in Range(elayers[t][n])

\* C35: in _execute_parallel, whatever order the calls of a layer end in:
\* while a layer is gathered the cache holds the outputs of the earlier
\* layers and nothing of the layer in progress; every prompt is the template
\* filled from the outputs of the layers before its own; and at the return
\* the cache holds, per ID, the output of its last step in layer and task
\* order, and the text returned is the output of the last step of the last
\* layer.  So the final cache and text are determined by the script and by
\* the reply to each prompt.
C35_ResultIndependentOfCompletionOrder ==
  \A t \in Threads :
    (mode[t] = "async" /\ pc[t] \in {"gather", "write", "done"} /\ esteps[t] # <<>>) =>
      /\ pc[t] = "gather" =>
           GetCache(t) = CacheAfter(t, LayersUpTo(elayers[t], cur[t] - 1))
      /\ \A p \in DOMAIN esteps[t] :
           status[t][p] # "new" =>
             filled[t][p] =
               substitute_variables(esteps[t][p].instr,
                 CacheAfter(t, LayersUpTo(elayers[t], LayerOf(t, p) - 1)))
      /\ pc[t] = "done" =>
           LET order == LayersUpTo(elayers[t], Len(elayers[t]))
           IN /\ GetCache(t) = CacheAfter(t, order)
              /\ ret[t] = output[t][order[Len(order)]].text

\* The fan-out script a, b, c has run: in the second layer the call of c
\* raised and ended before the call of b, and the text returned is the
\* output of c, the last task of the layer.
C35_Witness ==
  \E t \in Threads :
    /\ script[t] = FanOutScript
    /\ mode[t] = "async"
    /\ pc[t] = "done"
    /\ rlog[t] = <<1, 3, 2>>
    /\ failed[t] = {3}
    /\ ret[t] = Sentinel(variant)
    /\ GetCache(t)["b"].text # GetCache(t)["c"].text

\* ------------------------------------------------------------------------
\* Termination of build_execution_layers
\* ------------------------------------------------------------------------

\* The passes of the while loop made so far: one per layer committed, and
\* the pass that found no layer and raised or broke out of the loop.
LoopPasses ==
  Len(layers) +
    (IF \/ pcL = "raised"
        \/ pcL = "returned" /\ steps # <<>> /\ Cardinality(assigned) < Len(steps)
     THEN 1 ELSE 0)

\* C36: build_execution_layers ends, by returning or raising, on every step
\* list; a pass after which the loop goes on has assigned at least one new
\* step ID; and at most len(steps) + 1 passes are made.
C36_LayeringTerminates ==
  /\ <>(pcL \in {"returned", "raised"})
  /\ [][(pcL = "loop" /\ pcL' = "loop") => assigned \subseteq assigned' /\ assigned' # assigned]_vars
  /\ [](LoopPasses <= Len(steps) + 1)

\* A list of three steps with a repeated ID has been layered: the loop
\* condition still held when every ID was assigned, and the pass that found
\* no layer and nothing remaining broke out of the loop.
C36_Witness ==
  /\ pcL = "returned"
  /\ Len(steps) = 3
  /\ layers # <<>>
  /\ Cardinality(assigned) < Len(steps)
  /\ LoopPasses = Len(layers) + 1

\* A list whose steps all wait for an ID that is never assigned has raised
\* in its first pass.
RaisedInFirstPass ==
  /\ pcL = "raised"
  /\ layers = <<>>
  /\ Len(steps) = 3

\* ------------------------------------------------------------------------
\* Properties of the permits
\* ------------------------------------------------------------------------

\* The calls that hold a permit of semaphore k.
PermitHolders(k) ==
  {c \in PermitCallers : u_pc[c] \in {"inside", "inflight"} /\ u_sem[c] = k}

AllCallsFinished == \A c \in PermitCallers : u_pc[c] = "done"

\* The semaphores the next calls will use.
CurrentSemaphores == {u_api, u_async} \ {0}

\* C37: every exit of call_llm and call_llm_async gives back the one permit
\* the call took: of every semaphore the free permits and the permits held
\* by calls in progress add up to the number it was created with, and when
\* all calls have finished the semaphores in use have max_concurrent free
\* permits.
C37_EveryExitReleasesItsPermit ==
  /\ \A k \in DOMAIN u_sems :
       u_sems[k].value + Cardinality(PermitHolders(k)) = u_sems[k].created
  /\ AllCallsFinished =>
       \A k \in CurrentSemaphores : u_sems[k].value = u_max

\* All calls have finished, one thread's and the coroutine's after the
\* provider raised and the other thread's on an unknown provider, and the
\* gates they used are full again.
C37_Witness ==
  /\ AllCallsFinished
  /\ \E c \in SyncCallers : u_exit[c] = "provider_error"
  /\ \E c \in SyncCallers : u_exit[c] = "unknown_provider"
  /\ \E c \in AsyncCallers : u_exit[c] = "provider_error"
  /\ u_api # 0 /\ u_async # 0
  /\ \A c \in PermitCallers : u_sem[c] \in CurrentSemaphores
  /\ u_sems[u_api].value = u_max
  /\ u_sems[u_async].value = u_max

\* A call that failed gave its permit to a call that was waiting for it.
FailedCallUnblocksWaiter ==
  \E c, d \in SyncCallers :
    /\ c # d
    /\ u_sem[c] = u_sem[d]
    /\ u_sem[c] # 0
    /\ u_sems[u_sem[c]].created = 1
    /\ u_exit[c] \in {"provider_error", "unknown_provider"}
    /\ u_pc[d] = "inflight"

\* The coroutine's call has ended on a provider call_llm_async does not
\* know, and its semaphore is full again.
AsyncUnknownProviderReleased ==
  \E c \in AsyncCallers :
    /\ u_exit[c] = "unknown_provider"
    /\ u_sems[u_sem[c]].value = u_sems[u_sem[c]].created

\* The permits of the asyncio.Semaphore objects that coroutines of several
\* event loops compete for: no step changes the sum of a semaphore's counter
\* and the calls in flight on it.
GateHolders(k) == {c \in Callers : cpc[c] = "inflight" /\ csem[c] = k}

GatePermitsConserved ==
  [][\A k \in DOMAIN sems :
       sems'[k].value + Cardinality(GateHolders(k))' =
         sems[k].value + Cardinality(GateHolders(k))]_vars

\* Calls finish on a semaphore that init_rate_limiter has replaced.
FinishedOnReplacedSemaphore ==
  \E c \in PermitCallers :
    /\ u_pc[c] = "done"
    /\ u_sem[c] # 0
    /\ u_sem[c] \notin CurrentSemaphores
    /\ u_exit[c] = "returned"

\* ------------------------------------------------------------------------
\* Properties of the plan cache
\* ------------------------------------------------------------------------

\* C39: for one instance and one context phase1_explore is executed at most
\* once, also when evaluate_ranking is called by several threads at once,
\* and every call that does not explore uses the plan stored in lwt_cache.
C39_ExploredOncePerContext ==
  /\ \A context \in RankContexts : v_explored[context] <= 1
  /\ \A t \in Threads :
       v_pc[t] = "planned" => v_plan[t] = v_cache[v_ctx[t]]

\* Once a plan is stored for a context, a call that tests the cache reads it
\* and does not explore; a stored plan is only replaced by a call that
\* tested the cache before it was stored.
StoredPlanIsUsed ==
  [][\A t \in Threads :
       (v_pc[t] = "check" /\ v_pc'[t] # "check" /\ v_cache[v_ctx[t]] # Absent)
         => /\ v_plan'[t] = v_cache[v_ctx[t]]
            /\ v_explored' = v_explored]_vars

\* Both threads are inside phase1_explore for the same context.
TwoThreadsExploreOneContext ==
  /\ \A t \in Threads : v_pc[t] = "explore"
  /\ \E context \in RankContexts :
       /\ \A t \in Threads : v_ctx[t] = context
       /\ v_explored[context] = 2

\* A thread goes on with a plan that another thread's store has replaced.
PlanDiffersFromStored ==
  \E t \in Threads :
    /\ v_pc[t] = "planned"
    /\ v_plan[t] # v_cache[v_ctx[t]]

\* A later call has read the plan an earlier call stored.
LaterCallReadStoredPlan ==
  \E t \in Threads :
    /\ v_calls[t] = 2
    /\ v_pc[t] = "planned"
    /\ v_explored[v_ctx[t]] = 1
    /\ v_plan[t] = "plan"

====
